---- MODULE Spec2Model ----
(***************************************************************************)
(* Model of android-action-kernel: the agent loop (agent.py), the screen  *)
(* capture (adb.py) and the action executor (actions.py).                  *)
(*                                                                         *)
(* Python text is a sequence of one-character strings, so that lower(),    *)
(* replace(), split() and int() are computed character by character.       *)
(* Python values are tagged records: the field t names the Python type.    *)
(***************************************************************************)
EXTENDS Integers, Sequences, FiniteSets, TLC

(***************************************************************************)
(* Bounds of the model.                                                    *)
(***************************************************************************)
MaxSteps == 2

(***************************************************************************)
(* Program constants.                                                      *)
(***************************************************************************)
DEFAULT_WAIT_SECONDS == 2
DefaultSwipeDuration == 300
DefaultLongPressDuration == 1000
DefaultWidth == 1080
DefaultHeight == 1920

(***************************************************************************)
(* Text literals of the program, as character sequences.                   *)
(***************************************************************************)
S_tap == <<"t","a","p">>
S_type == <<"t","y","p","e">>
S_home == <<"h","o","m","e">>
S_back == <<"b","a","c","k">>
S_recent == <<"r","e","c","e","n","t">>
S_settings == <<"s","e","t","t","i","n","g","s">>
S_notification == <<"n","o","t","i","f","i","c","a","t","i","o","n">>
S_swipe == <<"s","w","i","p","e">>
S_swipe_down == <<"s","w","i","p","e","_","d","o","w","n">>
S_swipe_up == <<"s","w","i","p","e","_","u","p">>
S_swipe_left == <<"s","w","i","p","e","_","l","e","f","t">>
S_swipe_right == <<"s","w","i","p","e","_","r","i","g","h","t">>
S_long_press == <<"l","o","n","g","_","p","r","e","s","s">>
S_key == <<"k","e","y">>
S_open_app == <<"o","p","e","n","_","a","p","p">>
S_get_current_app == <<"g","e","t","_","c","u","r","r","e","n","t","_","a","p","p">>
S_get_device_info == <<"g","e","t","_","d","e","v","i","c","e","_","i","n","f","o">>
S_get_screen_info == <<"g","e","t","_","s","c","r","e","e","n","_","i","n","f","o">>
S_wait == <<"w","a","i","t">>
S_done == <<"d","o","n","e">>
S_launch_app == <<"l","a","u","n","c","h","_","a","p","p">>
S_navigate == <<"n","a","v","i","g","a","t","e">>
S_click == <<"c","l","i","c","k">>
S_press == <<"p","r","e","s","s">>
S_scroll == <<"s","c","r","o","l","l">>
S_scroll_down == <<"s","c","r","o","l","l","_","d","o","w","n">>
S_scroll_up == <<"s","c","r","o","l","l","_","u","p">>
S_None == <<"N","o","n","e">>
S_True == <<"T","r","u","e">>
S_False == <<"F","a","l","s","e">>
S_PhysicalSize == <<"P","h","y","s","i","c","a","l"," ","s","i","z","e",":">>
SPACE_REPLACEMENT == <<"%","s">>

(***************************************************************************)
(* Python values.                                                          *)
(***************************************************************************)
None == [t |-> "none"]
Absent == [t |-> "absent"]
PyStr(s) == [t |-> "str", s |-> s]
PyInt(n) == [t |-> "int", n |-> n]
PyBool(b) == [t |-> "bool", b |-> b]
PyList(e) == [t |-> "list", e |-> e]
PyDict(k) == [t |-> "dict", k |-> k]

\* bool(v): the truth value Python's `not v` tests.
Truthy(v) ==
  CASE v.t = "none" -> FALSE
    [] v.t = "str" -> Len(v.s) > 0
    [] v.t = "int" -> v.n # 0
    [] v.t = "bool" -> v.b
    [] v.t = "list" -> Len(v.e) > 0
    [] v.t = "dict" -> Len(v.k) > 0

\* Whether len(v) is defined; len() of an int, bool or None is a TypeError.
HasLen(v) == v.t \in {"str", "list", "dict"}

PyLen(v) ==
  CASE v.t = "str" -> Len(v.s)
    [] v.t = "list" -> Len(v.e)
    [] v.t = "dict" -> Len(v.k)

\* The items iteration yields: characters of a str, elements of a list,
\* keys of a dict.
Items(v) ==
  CASE v.t = "str" -> [i \in 1..Len(v.s) |-> PyStr(<<v.s[i]>>)]
    [] v.t = "list" -> v.e
    [] v.t = "dict" -> [i \in 1..Len(v.k) |-> PyStr(v.k[i])]

Digits == <<"0","1","2","3","4","5","6","7","8","9">>

RECURSIVE NatToStr(_)
NatToStr(n) ==
  IF n < 10 THEN <<Digits[n + 1]>>
  ELSE NatToStr(n \div 10) \o <<Digits[(n % 10) + 1]>>

IntToStr(n) == IF n < 0 THEN <<"-">> \o NatToStr(0 - n) ELSE NatToStr(n)

\* str(v) for the scalar values; the model never applies it to a container.
Str(v) ==
  CASE v.t = "str" -> v.s
    [] v.t = "int" -> IntToStr(v.n)
    [] v.t = "bool" -> IF v.b THEN S_True ELSE S_False
    [] v.t = "none" -> S_None

UpperLetters == <<"A","B","C","D","E","F","G","H","I","J","K","L","M",
                  "N","O","P","Q","R","S","T","U","V","W","X","Y","Z">>
LowerLetters == <<"a","b","c","d","e","f","g","h","i","j","k","l","m",
                  "n","o","p","q","r","s","t","u","v","w","x","y","z">>

LowerChar(c) ==
  IF \E i \in 1..26 : UpperLetters[i] = c
  THEN LowerLetters[CHOOSE i \in 1..26 : UpperLetters[i] = c]
  ELSE c

UpperChar(c) ==
  IF \E i \in 1..26 : LowerLetters[i] = c
  THEN UpperLetters[CHOOSE i \in 1..26 : LowerLetters[i] = c]
  ELSE c

\* str.lower() and str.upper()
Lower(s) == [i \in 1..Len(s) |-> LowerChar(s[i])]
Upper(s) == [i \in 1..Len(s) |-> UpperChar(s[i])]

\* s.startswith(p) at offset i (1-based)
MatchAt(s, p, i) ==
  /\ i + Len(p) - 1 <= Len(s)
  /\ \A j \in 1..Len(p) : s[i + j - 1] = p[j]

\* p in s
Contains(s, p) == \E i \in 1..(Len(s) + 1) : MatchAt(s, p, i)

\* s.replace(old, new), old non-empty
RECURSIVE Replace(_, _, _)
Replace(s, old, new) ==
  IF Len(s) = 0 THEN <<>>
  ELSE IF MatchAt(s, old, 1)
       THEN new \o Replace(SubSeq(s, Len(old) + 1, Len(s)), old, new)
       ELSE <<s[1]>> \o Replace(Tail(s), old, new)

\* s.split(sep), sep non-empty: the parts between the occurrences of sep
RECURSIVE SplitFrom(_, _, _)
SplitFrom(s, sep, cur) ==
  IF Len(s) = 0 THEN <<cur>>
  ELSE IF MatchAt(s, sep, 1)
       THEN <<cur>> \o SplitFrom(SubSeq(s, Len(sep) + 1, Len(s)), sep, <<>>)
       ELSE SplitFrom(Tail(s), sep, cur \o <<s[1]>>)

Split(s, sep) == SplitFrom(s, sep, <<>>)

IsSpace(c) == c \in {" ", "\n", "\t", "\r"}

RECURSIVE LStrip(_)
LStrip(s) == IF Len(s) > 0 /\ IsSpace(s[1]) THEN LStrip(Tail(s)) ELSE s

RECURSIVE RStrip(_)
RStrip(s) ==
  IF Len(s) > 0 /\ IsSpace(s[Len(s)]) THEN RStrip(SubSeq(s, 1, Len(s) - 1))
  ELSE s

\* str.strip()
Strip(s) == RStrip(LStrip(s))

IsDigit(c) == \E i \in 1..10 : Digits[i] = c
DigitVal(c) == (CHOOSE i \in 1..10 : Digits[i] = c) - 1

RECURSIVE DigitsToNat(_, _)
DigitsToNat(s, acc) ==
  IF Len(s) = 0 THEN acc ELSE DigitsToNat(Tail(s), acc * 10 + DigitVal(s[1]))

\* int(s) accepts surrounding whitespace, one optional sign and digits.
Unsigned(u) == IF Len(u) > 0 /\ u[1] \in {"+", "-"} THEN Tail(u) ELSE u
IsNegative(u) == Len(u) > 0 /\ u[1] = "-"
AllDigits(b) == Len(b) > 0 /\ \A i \in 1..Len(b) : IsDigit(b[i])
SignedValue(u) ==
  IF IsNegative(u) THEN 0 - DigitsToNat(Unsigned(u), 0)
  ELSE DigitsToNat(Unsigned(u), 0)

\* Whether int(s) returns (it raises ValueError otherwise), and its value.
IntParses(s) == AllDigits(Unsigned(Strip(s)))
ParseInt(s) == SignedValue(Strip(s))

(***************************************************************************)
(* The action dictionary.  A decision is a record with one field per key   *)
(* the executor reads; a key the dictionary lacks holds Absent.            *)
(***************************************************************************)
ActionKeys ==
  {"action", "coordinates", "text", "keycode", "start", "end", "duration",
   "package"}

\* dict.get(key) and dict.get(key, default)
Get(action, key) == IF action[key] = Absent THEN None ELSE action[key]
GetDefault(action, key, d) == IF action[key] = Absent THEN d ELSE action[key]

(***************************************************************************)
(* adb.py: run_adb_command.  res is what the adb process answers: its exit *)
(* code and its standard output.  Joining the command words for the log    *)
(* line raises TypeError when a word is not a str, before the process is   *)
(* started.  issued lists the commands that reached the device.            *)
(***************************************************************************)
Command(words, args) == [cmd |-> words, args |-> args]

IssuedCommand(command, res) ==
  [cmd |-> command.cmd,
   args |-> [i \in 1..Len(command.args) |-> command.args[i].s],
   rc |-> res.rc,
   out |-> res.out]

run_adb_command(command, res, raise_on_error) ==
  IF \E i \in 1..Len(command.args) : command.args[i].t # "str"
  THEN [exc |-> "TypeError", out |-> <<>>, issued |-> <<>>]
  ELSE IF res.rc # 0 /\ raise_on_error
       THEN [exc |-> "ADBError", out |-> <<>>,
             issued |-> <<IssuedCommand(command, res)>>]
       ELSE [exc |-> "none", out |-> Strip(res.out),
             issued |-> <<IssuedCommand(command, res)>>]

(***************************************************************************)
(* actions.py: the handlers.  Each takes the action and adb, the answers   *)
(* of the adb processes it starts (in call order), and yields the          *)
(* exception it raises ("none" when it returns) and the commands issued.   *)
(***************************************************************************)
Raise(e) == [exc |-> e, cmds |-> <<>>]
Returned(cmds) == [exc |-> "none", cmds |-> cmds]

\* A handler whose only device access is one command, started with the
\* default raise_on_error of run_adb_command.
OneCommand(words, args, adb) ==
  LET r == run_adb_command(Command(words, args), adb[1], FALSE)
  IN [exc |-> r.exc, cmds |-> r.issued]

\* Variant of CheckPoint: `len(coordinates) < 2` for `len(coordinates) != 2`.
CheckPointAtLeastTwo(coordinates) ==
  IF ~Truthy(coordinates) THEN "ValueError"
  ELSE IF ~HasLen(coordinates) THEN "TypeError"
  ELSE IF PyLen(coordinates) < 2 THEN "ValueError"
  ELSE "none"

\* `if not coordinates or len(coordinates) != 2: raise ValueError(...)`
\* yields the exception of the check, "none" when the value passes.
CheckPoint(coordinates) ==
  IF ~Truthy(coordinates) THEN "ValueError"
  ELSE IF ~HasLen(coordinates) THEN "TypeError"
  ELSE IF PyLen(coordinates) # 2 THEN "ValueError"
  ELSE "none"

\* `if not text: raise ValueError(...)` (also keycode, package)
CheckRequired(value) == IF ~Truthy(value) THEN "ValueError" ELSE "none"

_handle_tap(action, adb) ==
  LET coordinates == Get(action, "coordinates")
      chk == CheckPoint(coordinates)
  IN IF chk # "none" THEN Raise(chk)
     ELSE LET x == Items(coordinates)[1]
              y == Items(coordinates)[2]
          IN OneCommand("shell input tap",
                        <<PyStr(Str(x)), PyStr(Str(y))>>, adb)

\* Variant of _handle_type: only the first space is replaced
\* (`text.replace(" ", SPACE_REPLACEMENT, 1)`).
_handle_type_first_space(action, adb) ==
  LET text == Get(action, "text")
      chk == CheckRequired(text)
  IN IF chk # "none" THEN Raise(chk)
     ELSE IF text.t # "str" THEN Raise("AttributeError")
     ELSE LET first == CHOOSE i \in 1..(Len(text.s) + 1) :
                         /\ i <= Len(text.s) => text.s[i] = " "
                         /\ \A j \in 1..(i - 1) : text.s[j] # " "
              adb_text == IF first > Len(text.s) THEN text.s
                          ELSE SubSeq(text.s, 1, first - 1)
                                 \o SPACE_REPLACEMENT
                                 \o SubSeq(text.s, first + 1, Len(text.s))
          IN OneCommand("shell input text", <<PyStr(adb_text)>>, adb)

_handle_type(action, adb) ==
  LET text == Get(action, "text")
      chk == CheckRequired(text)
  IN IF chk # "none" THEN Raise(chk)
     ELSE IF text.t # "str" THEN Raise("AttributeError")
     ELSE LET adb_text == Replace(text.s, <<" ">>, SPACE_REPLACEMENT)
          IN OneCommand("shell input text", <<PyStr(adb_text)>>, adb)

S_KEYCODE_HOME == <<"K","E","Y","C","O","D","E","_","H","O","M","E">>
S_KEYCODE_BACK == <<"K","E","Y","C","O","D","E","_","B","A","C","K">>
S_KEYCODE_APP_SWITCH == <<"K","E","Y","C","O","D","E","_","A","P","P","_","S","W","I","T","C","H">>
S_KEYCODE_SETTINGS == <<"K","E","Y","C","O","D","E","_","S","E","T","T","I","N","G","S">>
S_KEYCODE_NOTIFICATION == <<"K","E","Y","C","O","D","E","_","N","O","T","I","F","I","C","A","T","I","O","N">>

_handle_home(action, adb) ==
  OneCommand("shell input keyevent", <<PyStr(S_KEYCODE_HOME)>>, adb)

_handle_back(action, adb) ==
  OneCommand("shell input keyevent", <<PyStr(S_KEYCODE_BACK)>>, adb)

_handle_recent(action, adb) ==
  OneCommand("shell input keyevent", <<PyStr(S_KEYCODE_APP_SWITCH)>>, adb)

_handle_settings(action, adb) ==
  OneCommand("shell input keyevent", <<PyStr(S_KEYCODE_SETTINGS)>>, adb)

_handle_notification(action, adb) ==
  OneCommand("shell input keyevent", <<PyStr(S_KEYCODE_NOTIFICATION)>>, adb)

\* time.sleep(DEFAULT_WAIT_SECONDS): no device access
_handle_wait(action, adb) == Returned(<<>>)

\* The parse of the `wm size` output (lines 153-159); any exception in it
\* is caught and yields the default size (lines 160-162).
SizeString(output) ==
  IF Contains(output, S_PhysicalSize)
  THEN Strip(Split(output, S_PhysicalSize)[2])
  ELSE Strip(output)

\* `width, height = map(int, parts)`
SizeOfParts(parts) ==
  IF Len(parts) = 2 /\ IntParses(parts[1]) /\ IntParses(parts[2])
  THEN <<ParseInt(parts[1]), ParseInt(parts[2])>>
  ELSE <<DefaultWidth, DefaultHeight>>

ParseSize(output) == SizeOfParts(Split(SizeString(output), <<"x">>))

\* Yields the size and the command issued; res is the answer of `wm size`.
_get_screen_dimensions(res) ==
  LET r == run_adb_command(Command("shell wm size", <<>>), res, FALSE)
  IN IF r.exc # "none"
     THEN [size |-> <<DefaultWidth, DefaultHeight>>, cmds |-> r.issued]
     ELSE [size |-> ParseSize(r.out), cmds |-> r.issued]

\* The swipe command shared by the swipe handlers:
\* input swipe x1 y1 x2 y2 duration, each word through str().
SwipeCommand(x1, y1, x2, y2, duration) ==
  Command("shell input swipe",
          <<PyStr(Str(x1)), PyStr(Str(y1)), PyStr(Str(x2)), PyStr(Str(y2)),
            PyStr(Str(duration))>>)

_handle_swipe(action, adb) ==
  LET start == Get(action, "start")
      end == Get(action, "end")
      duration == GetDefault(action, "duration", PyInt(DefaultSwipeDuration))
      chk1 == CheckPoint(start)
      chk2 == CheckPoint(end)
  IN IF chk1 # "none" THEN Raise(chk1)
     ELSE IF chk2 # "none" THEN Raise(chk2)
     ELSE LET r == run_adb_command(
                     SwipeCommand(Items(start)[1], Items(start)[2],
                                  Items(end)[1], Items(end)[2], duration),
                     adb[1], FALSE)
          IN [exc |-> r.exc, cmds |-> r.issued]

\* The four directional swipes: the size query, then one swipe between two
\* points computed from the size d.size = <<width, height>>.
DirectionalSwipe(action, adb, d, x1, y1, x2, y2) ==
  LET duration == GetDefault(action, "duration", PyInt(DefaultSwipeDuration))
      r == run_adb_command(
             SwipeCommand(PyInt(x1), PyInt(y1), PyInt(x2), PyInt(y2),
                          duration),
             adb[2], FALSE)
  IN [exc |-> r.exc, cmds |-> d.cmds \o r.issued]

\* Variant of SwipeDownAt: the lower third taken as twice the upper third.
SwipeDownAtDoubledThird(action, adb, d) ==
  DirectionalSwipe(action, adb, d, d.size[1] \div 2, d.size[2] \div 3,
                   d.size[1] \div 2, (d.size[2] \div 3) * 2)

\* d.size = <<width, height>>
SwipeDownAt(action, adb, d) ==
  DirectionalSwipe(action, adb, d, d.size[1] \div 2, d.size[2] \div 3,
                   d.size[1] \div 2, (d.size[2] * 2) \div 3)

SwipeUpAt(action, adb, d) ==
  DirectionalSwipe(action, adb, d, d.size[1] \div 2, (d.size[2] * 2) \div 3,
                   d.size[1] \div 2, d.size[2] \div 3)

SwipeLeftAt(action, adb, d) ==
  DirectionalSwipe(action, adb, d, (d.size[1] * 2) \div 3, d.size[2] \div 2,
                   d.size[1] \div 3, d.size[2] \div 2)

SwipeRightAt(action, adb, d) ==
  DirectionalSwipe(action, adb, d, d.size[1] \div 3, d.size[2] \div 2,
                   (d.size[1] * 2) \div 3, d.size[2] \div 2)

_handle_swipe_down(action, adb) ==
  SwipeDownAt(action, adb, _get_screen_dimensions(adb[1]))

_handle_swipe_up(action, adb) ==
  SwipeUpAt(action, adb, _get_screen_dimensions(adb[1]))

_handle_swipe_left(action, adb) ==
  SwipeLeftAt(action, adb, _get_screen_dimensions(adb[1]))

_handle_swipe_right(action, adb) ==
  SwipeRightAt(action, adb, _get_screen_dimensions(adb[1]))

_handle_long_press(action, adb) ==
  LET coordinates == Get(action, "coordinates")
      duration ==
        GetDefault(action, "duration", PyInt(DefaultLongPressDuration))
      chk == CheckPoint(coordinates)
  IN IF chk # "none" THEN Raise(chk)
     ELSE LET x == Items(coordinates)[1]
              y == Items(coordinates)[2]
              r == run_adb_command(SwipeCommand(x, y, x, y, duration),
                                   adb[1], FALSE)
          IN [exc |-> r.exc, cmds |-> r.issued]

S_KEYCODE_ENTER == <<"K","E","Y","C","O","D","E","_","E","N","T","E","R">>
S_KEYCODE_DEL == <<"K","E","Y","C","O","D","E","_","D","E","L">>
S_KEYCODE_TAB == <<"K","E","Y","C","O","D","E","_","T","A","B">>
S_KEYCODE_DPAD_UP == <<"K","E","Y","C","O","D","E","_","D","P","A","D","_","U","P">>
S_KEYCODE_DPAD_DOWN == <<"K","E","Y","C","O","D","E","_","D","P","A","D","_","D","O","W","N">>
S_KEYCODE_DPAD_LEFT == <<"K","E","Y","C","O","D","E","_","D","P","A","D","_","L","E","F","T">>
S_KEYCODE_DPAD_RIGHT == <<"K","E","Y","C","O","D","E","_","D","P","A","D","_","R","I","G","H","T">>
S_KEYCODE_MENU == <<"K","E","Y","C","O","D","E","_","M","E","N","U">>
S_KEYCODE_SEARCH == <<"K","E","Y","C","O","D","E","_","S","E","A","R","C","H">>
S_KEYCODE_CLEAR == <<"K","E","Y","C","O","D","E","_","C","L","E","A","R">>

keycode_map ==
  (S_KEYCODE_ENTER :> <<"6","6">>) @@ (S_KEYCODE_DEL :> <<"6","7">>) @@
  (S_KEYCODE_TAB :> <<"6","1">>) @@ (S_KEYCODE_DPAD_UP :> <<"1","9">>) @@
  (S_KEYCODE_DPAD_DOWN :> <<"2","0">>) @@
  (S_KEYCODE_DPAD_LEFT :> <<"2","1">>) @@
  (S_KEYCODE_DPAD_RIGHT :> <<"2","2">>) @@ (S_KEYCODE_MENU :> <<"8","2">>) @@
  (S_KEYCODE_SEARCH :> <<"8","4">>) @@ (S_KEYCODE_CLEAR :> <<"2","8">>)

_handle_key(action, adb) ==
  LET keycode == Get(action, "keycode")
      chk == CheckRequired(keycode)
  IN IF chk # "none" THEN Raise(chk)
     ELSE IF keycode.t # "str" THEN Raise("AttributeError")
     ELSE LET keycode_value ==
                IF Upper(keycode.s) \in DOMAIN keycode_map
                THEN keycode_map[Upper(keycode.s)]
                ELSE keycode.s
          IN OneCommand("shell input keyevent", <<PyStr(keycode_value)>>, adb)

\* The launch command takes the package as it is; the verification query
\* and its substring test sit in a try block that swallows every exception.
\* Variant of _handle_open_app: a launch the window dump does not confirm
\* is an ADBError.
_handle_open_app_strict(action, adb) ==
  LET package == Get(action, "package")
      chk == CheckRequired(package)
  IN IF chk # "none" THEN Raise(chk)
     ELSE LET r1 == run_adb_command(
                      Command("shell monkey -p -c LAUNCHER 1", <<package>>),
                      adb[1], FALSE)
              r2 == run_adb_command(
                      Command("shell dumpsys window windows", <<>>),
                      adb[2], FALSE)
          IN IF r1.exc # "none" THEN [exc |-> r1.exc, cmds |-> r1.issued]
             ELSE IF Contains(r2.out, package.s)
                  THEN Returned(r1.issued \o r2.issued)
                  ELSE [exc |-> "ADBError", cmds |-> r1.issued \o r2.issued]

\* `if package in current_package: return`, and the same return at the end
\* of the function when the package is not in the window dump.
_handle_open_app(action, adb) ==
  LET package == Get(action, "package")
      chk == CheckRequired(package)
  IN IF chk # "none" THEN Raise(chk)
     ELSE LET r1 == run_adb_command(
                      Command("shell monkey -p -c LAUNCHER 1", <<package>>),
                      adb[1], FALSE)
              r2 == run_adb_command(
                      Command("shell dumpsys window windows", <<>>),
                      adb[2], FALSE)
          IN IF r1.exc # "none" THEN [exc |-> r1.exc, cmds |-> r1.issued]
             ELSE IF Contains(r2.out, package.s)
                  THEN Returned(r1.issued \o r2.issued)
                  ELSE Returned(r1.issued \o r2.issued)

\* The scan of the dumpsys output for the focused package is summarised by
\* adb[1].parse: "package" (a package was found), "nopackage" (none, the
\* activity query follows) or "error" (the scan raised, which the handler
\* catches).  The handler only prints what it finds.
_handle_get_current_app(action, adb) ==
  LET r1 == run_adb_command(Command("shell dumpsys window windows", <<>>),
                            adb[1], FALSE)
      r2 == run_adb_command(
              Command("shell dumpsys activity activities", <<>>),
              adb[2], FALSE)
  IN IF adb[1].parse = "nopackage" THEN Returned(r1.issued \o r2.issued)
     ELSE Returned(r1.issued)

DeviceInfoQueries ==
  <<"shell getprop ro.product.model",
    "shell getprop ro.build.version.release",
    "shell getprop ro.build.version.sdk",
    "shell getprop ro.product.manufacturer",
    "shell getprop ro.product.device",
    "shell wm density">>

_handle_get_device_info(action, adb) ==
  Returned([i \in 1..Len(DeviceInfoQueries) |->
              run_adb_command(Command(DeviceInfoQueries[i], <<>>),
                              adb[i], FALSE).issued[1]])

_handle_get_screen_info(action, adb) ==
  LET d == _get_screen_dimensions(adb[1])
      r2 == run_adb_command(Command("shell dumpsys input", <<>>),
                            adb[2], FALSE)
      r3 == run_adb_command(Command("shell wm density", <<>>),
                            adb[3], FALSE)
  IN Returned(d.cmds \o r2.issued \o r3.issued)

\* Prints only; the agent loop has returned before it could be called.
_handle_done(action, adb) == Returned(<<>>)

(***************************************************************************)
(* actions.py: ActionExecutor.__init__ and execute.                        *)
(***************************************************************************)
_action_handlers ==
  (S_tap :> "_handle_tap") @@ (S_type :> "_handle_type") @@
  (S_home :> "_handle_home") @@ (S_back :> "_handle_back") @@
  (S_recent :> "_handle_recent") @@ (S_settings :> "_handle_settings") @@
  (S_notification :> "_handle_notification") @@
  (S_swipe :> "_handle_swipe") @@ (S_swipe_down :> "_handle_swipe_down") @@
  (S_swipe_up :> "_handle_swipe_up") @@
  (S_swipe_left :> "_handle_swipe_left") @@
  (S_swipe_right :> "_handle_swipe_right") @@
  (S_long_press :> "_handle_long_press") @@ (S_key :> "_handle_key") @@
  (S_open_app :> "_handle_open_app") @@
  (S_get_current_app :> "_handle_get_current_app") @@
  (S_get_device_info :> "_handle_get_device_info") @@
  (S_get_screen_info :> "_handle_get_screen_info") @@
  (S_wait :> "_handle_wait") @@ (S_done :> "_handle_done")

\* Variant of action_mapping: navigate is a synonym of done.
action_mapping_to_done ==
  (S_launch_app :> S_open_app) @@ (S_navigate :> S_done) @@
  (S_click :> S_tap) @@ (S_press :> S_tap) @@ (S_scroll :> S_swipe_down) @@
  (S_scroll_down :> S_swipe_down) @@ (S_scroll_up :> S_swipe_up)

action_mapping ==
  (S_launch_app :> S_open_app) @@ (S_navigate :> S_home) @@
  (S_click :> S_tap) @@ (S_press :> S_tap) @@ (S_scroll :> S_swipe_down) @@
  (S_scroll_down :> S_swipe_down) @@ (S_scroll_up :> S_swipe_up)

\* handler(action)
CallHandler(handler, action, adb) ==
  CASE handler = "_handle_tap" -> _handle_tap(action, adb)
    [] handler = "_handle_type" -> _handle_type(action, adb)
    [] handler = "_handle_home" -> _handle_home(action, adb)
    [] handler = "_handle_back" -> _handle_back(action, adb)
    [] handler = "_handle_recent" -> _handle_recent(action, adb)
    [] handler = "_handle_settings" -> _handle_settings(action, adb)
    [] handler = "_handle_notification" -> _handle_notification(action, adb)
    [] handler = "_handle_swipe" -> _handle_swipe(action, adb)
    [] handler = "_handle_swipe_down" -> _handle_swipe_down(action, adb)
    [] handler = "_handle_swipe_up" -> _handle_swipe_up(action, adb)
    [] handler = "_handle_swipe_left" -> _handle_swipe_left(action, adb)
    [] handler = "_handle_swipe_right" -> _handle_swipe_right(action, adb)
    [] handler = "_handle_long_press" -> _handle_long_press(action, adb)
    [] handler = "_handle_key" -> _handle_key(action, adb)
    [] handler = "_handle_open_app" -> _handle_open_app(action, adb)
    [] handler = "_handle_get_current_app" ->
         _handle_get_current_app(action, adb)
    [] handler = "_handle_get_device_info" ->
         _handle_get_device_info(action, adb)
    [] handler = "_handle_get_screen_info" ->
         _handle_get_screen_info(action, adb)
    [] handler = "_handle_wait" -> _handle_wait(action, adb)
    [] handler = "_handle_done" -> _handle_done(action, adb)

\* `action_type not in self._action_handlers`: the membership test hashes
\* the tag, which raises TypeError for a list or a dict.
Hashable(v) == v.t \notin {"list", "dict"}
Registered(v) == v.t = "str" /\ v.s \in DOMAIN _action_handlers

\* Variant of MappedType: a synonym step that leaves the tag as it came.
MappedTypeUnmapped(action_type) == action_type

\* The tag after the synonym step (lines 70-75), for a hashable tag that
\* has lower(): the mapping is consulted only for an unregistered tag.
MappedType(action_type) ==
  IF ~Registered(action_type)
     /\ Lower(action_type.s) \in DOMAIN action_mapping
  THEN PyStr(action_mapping[Lower(action_type.s)])
  ELSE action_type

\* Whether execute prints the "Mapped invalid action" message (lines 70-73):
\* the synonym table has an entry for the lower-cased unregistered tag.
MappingPrinted(action) ==
  LET action_type == Get(action, "action")
  IN /\ Truthy(action_type)
     /\ action_type.t = "str"
     /\ ~Registered(action_type)
     /\ Lower(action_type.s) \in DOMAIN action_mapping

\* execute up to the handler lookup (lines 54-83): the exception raised
\* before any handler runs ("none" when a handler is found), the action as
\* the synonym step leaves it (the tag is rewritten in place on a remap)
\* and the handler found ("" when none).
Dispatch(action) ==
  LET action_type == Get(action, "action")
      NoHandler(e, a) == [exc |-> e, action |-> a, handler |-> ""]
  IN IF ~Truthy(action_type) THEN NoHandler("ValueError", action)
     ELSE IF ~Hashable(action_type) THEN NoHandler("TypeError", action)
     ELSE IF ~Registered(action_type) /\ action_type.t # "str"
          THEN NoHandler("AttributeError", action)
     ELSE LET mapped == MappedType(action_type)
              action2 == [action EXCEPT !["action"] = mapped]
          IN IF ~Registered(mapped) THEN NoHandler("ValueError", action2)
             ELSE [exc |-> "none", action |-> action2,
                   handler |-> _action_handlers[mapped.s]]

\* Yields the exception raised ("none" when execute returns), the commands
\* issued, the action as execute leaves it and the handler that ran.
execute(action, adb) ==
  LET d == Dispatch(action)
  IN IF d.handler = ""
     THEN [exc |-> d.exc, cmds |-> <<>>, action |-> d.action,
           handler |-> ""]
     ELSE LET r == CallHandler(d.handler, d.action, adb)
          IN [exc |-> r.exc, cmds |-> r.cmds, action |-> d.action,
              handler |-> d.handler]

(***************************************************************************)
(* The answers of the adb processes a handler starts.  An answer is the    *)
(* exit code, the standard output and, for the focused-window query, the   *)
(* summary of what the scan of that output finds.                          *)
(***************************************************************************)
OutLabelled == <<"P","h","y","s","i","c","a","l"," ","s","i","z","e",":"," ","1","0","8","0","x","1","9","2","0">>
OutBare == <<"7","2","0","x","1","2","8","0">>
OutOverride == <<"P","h","y","s","i","c","a","l"," ","s","i","z","e",":"," ","1","4","4","0","x","2","5","6","0","\n","O","v","e","r","r","i","d","e"," ","s","i","z","e",":"," ","7","2","0","x","1","2","8","0">>
OutGarbage == <<"e","r","r","o","r">>
OutOdd == <<"P","h","y","s","i","c","a","l"," ","s","i","z","e",":"," ","1","0","7","9","x","1","9","1","9","\n">>

SizeOutputs == {OutLabelled, OutBare, OutOverride, OutGarbage, OutOdd, <<>>}

PlainAnswers == [rc : {0, 1}, out : {<<>>}, parse : {"nopackage"}]
SizeAnswers == [rc : {0, 1}, out : SizeOutputs, parse : {"nopackage"}]
FocusAnswers ==
  [rc : {0, 1}, out : {<<>>}, parse : {"package", "nopackage", "error"}]

\* Answers of `dumpsys window windows` to the launch verification: nothing,
\* or a focus line that names the package a.b.
S_focus_line == <<"u","0"," ","a",".","b","/",".","M","}">>
WindowAnswers ==
  [rc : {0, 1}, out : {<<>>, S_focus_line}, parse : {"nopackage"}]

Seq1(A) == {<<a>> : a \in A}
Seq2(A, B) == {<<a, b>> : a \in A, b \in B}
Seq3(A, B, C) == {<<a, b, c>> : a \in A, b \in B, c \in C}

AdbAnswers(handler) ==
  CASE handler \in {"", "_handle_wait", "_handle_done"} -> {<<>>}
    [] handler \in {"_handle_swipe_down", "_handle_swipe_up",
                    "_handle_swipe_left", "_handle_swipe_right"} ->
         Seq2(SizeAnswers, PlainAnswers)
    [] handler = "_handle_get_screen_info" ->
         Seq3(SizeAnswers, PlainAnswers, PlainAnswers)
    [] handler = "_handle_get_current_app" ->
         Seq2(FocusAnswers, PlainAnswers)
    [] handler = "_handle_open_app" -> Seq2(PlainAnswers, WindowAnswers)
    [] handler = "_handle_get_device_info" ->
         [1..Len(DeviceInfoQueries) -> PlainAnswers]
    [] OTHER -> Seq1(PlainAnswers)

(***************************************************************************)
(* The decisions the decision engine can hand to the loop: a dictionary    *)
(* that has the key "action", with any JSON value under each key.          *)
(***************************************************************************)
S_TAP == <<"T","A","P">>
S_DONE == <<"D","O","N","E">>
S_Click == <<"C","l","i","c","k">>
S_fly == <<"f","l","y">>
S_ab == <<"a","b">>
S_hi_yo == <<"h","i"," ","y","o">>
S_space == <<" ">>
S_spaced == <<" ","a"," "," ","%","s"," ">>
S_pkg == <<"a",".","b">>
S_keycode_enter == <<"k","e","y","c","o","d","e","_","e","n","t","e","r">>

NoKeys == [k \in ActionKeys |-> Absent]
Tagged(tag) == [NoKeys EXCEPT !["action"] = tag]

PointValues ==
  {Absent, None, PyList(<<>>), PyList(<<PyInt(10)>>),
   PyList(<<PyInt(10), PyInt(20)>>),
   PyList(<<PyInt(10), PyInt(20), PyInt(30)>>),
   PyList(<<PyStr(<<"a">>), PyStr(<<"b">>)>>),
   PyStr(S_ab), PyStr(<<"a">>), PyDict(<<<<"x">>, <<"y">>>>),
   PyDict(<<<<"x">>>>), PyInt(7)}

DurationValues == {Absent, PyInt(500)}

PointTags == {PyStr(S_tap), PyStr(S_long_press), PyStr(S_click),
              PyStr(S_press), PyStr(S_Click)}

PointDecisions ==
  {[Tagged(tag) EXCEPT !["coordinates"] = c, !["duration"] = d] :
     tag \in PointTags, c \in PointValues, d \in DurationValues}

SwipePointValues ==
  {Absent, PyList(<<PyInt(10), PyInt(20)>>), PyList(<<PyInt(10)>>),
   PyStr(S_ab), PyInt(7)}

SwipeDecisions ==
  {[Tagged(PyStr(S_swipe)) EXCEPT !["start"] = s, !["end"] = e,
                                  !["duration"] = d] :
     s \in SwipePointValues, e \in SwipePointValues, d \in DurationValues}

TextValues ==
  {Absent, None, PyStr(<<>>), PyStr(S_ab), PyStr(S_hi_yo), PyStr(S_space),
   PyStr(S_spaced), PyInt(5)}

TypeDecisions ==
  {[Tagged(PyStr(S_type)) EXCEPT !["text"] = v] : v \in TextValues}

KeycodeValues ==
  {Absent, PyStr(<<>>), PyStr(S_KEYCODE_ENTER), PyStr(S_keycode_enter),
   PyStr(<<"6","6">>), PyInt(66), PyStr(S_fly)}

KeyDecisions ==
  {[Tagged(PyStr(S_key)) EXCEPT !["keycode"] = v] : v \in KeycodeValues}

PackageValues == {Absent, PyStr(<<>>), PyStr(S_pkg), PyInt(5)}

OpenDecisions ==
  {[Tagged(tag) EXCEPT !["package"] = v] :
     tag \in {PyStr(S_open_app), PyStr(S_launch_app)}, v \in PackageValues}

PlainTags ==
  {PyStr(S_home), PyStr(S_back), PyStr(S_recent), PyStr(S_settings),
   PyStr(S_notification), PyStr(S_swipe_down), PyStr(S_swipe_up),
   PyStr(S_swipe_left), PyStr(S_swipe_right), PyStr(S_get_current_app),
   PyStr(S_get_device_info), PyStr(S_get_screen_info), PyStr(S_wait),
   PyStr(S_done), PyStr(S_navigate), PyStr(S_scroll), PyStr(S_scroll_down),
   PyStr(S_scroll_up)}

\* Tags no handler is registered for: unknown words, a registered word in
\* another letter case, and the JSON values that are not text.
OddTags ==
  {PyStr(S_fly), PyStr(S_TAP), PyStr(S_DONE), PyStr(<<>>), None, PyInt(5), PyInt(0),
   PyBool(TRUE), PyBool(FALSE), PyList(<<PyStr(S_tap)>>), PyList(<<>>),
   PyDict(<<S_tap>>)}

PlainDecisions ==
  {[Tagged(tag) EXCEPT !["duration"] = d] :
     tag \in PlainTags \cup OddTags, d \in DurationValues}

Decisions ==
  PointDecisions \cup SwipeDecisions \cup TypeDecisions \cup KeyDecisions
    \cup OpenDecisions \cup PlainDecisions

(***************************************************************************)
(* The state.                                                              *)
(***************************************************************************)
VARIABLES
  pc,              \* where AndroidAgent.run (or run_agent) stands
  max_steps,       \* the argument of run
  it,              \* items the range iterator has yielded
  step,            \* the loop variable (-1 before the first iteration)
  remote_dump,     \* the file config.screen_dump_path on the device
  local_dump,      \* the file config.local_dump_path
  screen_context,  \* what get_screen_state returned in this step
  decision,        \* what get_decision returned in this step
  executed,        \* the action execute was called with
  cmds,            \* the device commands of the last execute call
  captures,        \* the exit codes of this step's dump and pull commands
  remapped,        \* whether the last execute call printed a remap message
  exc,             \* the exception run ends with ("none" so far)
  reported,        \* whether the except clause of run printed the error
  done_seen,       \* whether a `done` decision ended the run
  phases,          \* the phases of the current step, in order
  n_perceive,      \* calls of get_screen_state
  n_decide,        \* calls of get_decision
  n_execute,       \* calls of execute
  n_sleep,         \* settle pauses
  exit_status,     \* the exit status of the process (-1 while it runs)
  provider,        \* config.provider of the LLMClient
  llm_pc,          \* where LLMClient.get_decision stands
  requests,        \* the strategies of the requests sent, in order
  responses,       \* what chat.completions.create answered to each
  llm_decision,    \* the action get_decision returned
  llm_error,       \* the message of the LLMError it raised
  xml_content,     \* the XML text, as the tree it parses to
  xml_nodes,       \* the nodes root.iter() yields, in document order
  node_index,      \* nodes get_interactive_elements has visited
  elements,        \* the list get_interactive_elements builds
  san_pc           \* where get_interactive_elements stands

vars ==
  <<pc, max_steps, it, step, remote_dump, local_dump, screen_context,
    decision, executed, cmds, captures, remapped, exc, reported, done_seen,
    phases, n_perceive,
    n_decide, n_execute, n_sleep, exit_status, provider, llm_pc, requests, responses,
    llm_decision, llm_error, xml_content, xml_nodes, node_index, elements,
    san_pc>>

\* The state of the agent loop and of the executor, of one get_decision
\* call and of one get_interactive_elements call.
loop_vars ==
  <<pc, max_steps, it, step, remote_dump, local_dump, screen_context,
    decision, executed, cmds, captures, remapped, exc, reported, done_seen,
    phases, n_perceive, n_decide, n_execute, n_sleep, exit_status>>
llm_vars ==
  <<provider, llm_pc, requests, responses, llm_decision, llm_error>>
san_vars == <<xml_content, xml_nodes, node_index, elements, san_pc>>

NoFile == [exists |-> FALSE]
DumpFile(s, wf) == [exists |-> TRUE, step |-> s, wf |-> wf]
Unbound == [t |-> "unbound"]

\* No get_decision call is under way.
DecisionIdle ==
  /\ provider = "openai"
  /\ llm_pc = "idle"
  /\ requests = <<>>
  /\ responses = <<>>
  /\ llm_decision = Unbound
  /\ llm_error = <<>>

\* A text ET.fromstring rejects.
NotXml == [parses |-> FALSE, root |-> None]

\* No get_interactive_elements call is under way.
SanitizerIdle ==
  /\ xml_content = NotXml
  /\ xml_nodes = <<>>
  /\ node_index = 0
  /\ elements = <<>>
  /\ san_pc = "idle"

\* A dump file left by an earlier run carries step -1.
Init ==
  /\ DecisionIdle
  /\ SanitizerIdle
  /\ pc = "for"
  /\ max_steps \in 0..MaxSteps
  /\ it = 0
  /\ step = -1
  /\ remote_dump \in {NoFile, DumpFile(-1, TRUE)}
  /\ local_dump \in {NoFile, DumpFile(-1, TRUE)}
  /\ screen_context = Unbound
  /\ decision = Unbound
  /\ executed = Unbound
  /\ cmds = <<>>
  /\ captures = <<>>
  /\ remapped = FALSE
  /\ exc = "none"
  /\ reported = FALSE
  /\ done_seen = FALSE
  /\ phases = <<>>
  /\ n_perceive = 0
  /\ n_decide = 0
  /\ n_execute = 0
  /\ n_sleep = 0
  /\ exit_status = -1

(***************************************************************************)
(* adb.py: get_screen_state.  The dump command answers with its exit code  *)
(* and, as its effect on the device, whether it wrote the dump file and    *)
(* whether what it wrote is well-formed XML; the pull command copies the   *)
(* remote file over the local one exactly when it exits with 0.            *)
(***************************************************************************)
DumpAnswers ==
  {a \in [rc : {0, 1}, out : {<<>>}, wrote : BOOLEAN, wf : BOOLEAN] :
     /\ a.rc # 0 => ~a.wrote
     /\ ~a.wrote => a.wf}

PullAnswers == [rc : {0, 1}, out : {<<>>}]

\* Both commands run with the default raise_on_error; an ADBError, an
\* IOError of the read or an XMLParseError of the sanitizer is wrapped
\* into ScreenCaptureError.
get_screen_state(dump, pull, readable, remote, local, at) ==
  LET r1 == run_adb_command(Command("shell uiautomator dump", <<>>),
                            dump, FALSE)
      remote1 == IF dump.wrote THEN DumpFile(at, dump.wf) ELSE remote
      r2 == run_adb_command(Command("pull", <<>>), pull, FALSE)
      local1 == IF pull.rc = 0 THEN remote1 ELSE local
      Failed(rem, loc) ==
        [exc |-> "ScreenCaptureError", remote |-> rem, local |-> loc,
         context |-> Unbound,
         issued |-> IF r1.exc # "none" THEN r1.issued
                    ELSE r1.issued \o r2.issued]
  IN IF r1.exc # "none" THEN Failed(remote1, local)
     ELSE IF r2.exc # "none" THEN Failed(remote1, local1)
     ELSE IF ~local1.exists THEN Failed(remote1, local1)
     ELSE IF ~readable THEN Failed(remote1, local1)
     ELSE IF ~local1.wf THEN Failed(remote1, local1)
     ELSE [exc |-> "none", remote |-> remote1, local |-> local1,
           context |-> [t |-> "elements", step |-> local1.step],
           issued |-> r1.issued \o r2.issued]

(***************************************************************************)
(* agent.py: AndroidAgent.run.                                             *)
(***************************************************************************)
\* Variants of RangeHasNext with the bound off by one.
RangeHasNextInclusive(i, n) == i <= n
RangeStopsEarly(i, n) == i < n - 1

\* `for step in range(max_steps)`: whether the iterator yields another item
RangeHasNext(i, n) == i < n

\* Variant of IsDone: a loop without the termination check.
IsDoneNever(d) == FALSE

\* `decision.get('action') == 'done'`
IsDone(d) == Get(d, "action") = PyStr(S_done)

\* `except (ScreenCaptureError, LLMError, ValueError, ADBError) as e`
CaughtErrors == {"ScreenCaptureError", "LLMError", "ValueError", "ADBError"}

\* Variants of AfterError: a loop that swallows the error and goes on with
\* the next step, and one that swallows it and returns.
AfterErrorContinue(e) == "for"
AfterErrorReturn(e) == "returned"

\* Where run stands after a phase raised e: the except clause re-raises
\* what it catches, and what it does not catch propagates by itself.
AfterError(e) == "raised"

\* Variant of AfterExecute: a loop without the settle pause.
AfterExecuteNoSleep(r) == IF r.exc = "none" THEN "for" ELSE "raised"

\* Where run goes when execute has returned: the settle pause.
AfterExecute(r) == IF r.exc = "none" THEN "sleep" ELSE AfterError(r.exc)

\* The loop head.  The names screen_context and decision stay bound from
\* one iteration to the next, but every iteration assigns them before it
\* reads them; the model unbinds them (and the record of the last execute
\* call) when an iteration starts.
ForStep ==
  /\ pc = "for"
  /\ IF RangeHasNext(it, max_steps)
     THEN /\ step' = it
          /\ it' = it + 1
          /\ phases' = <<>>
          /\ screen_context' = Unbound
          /\ decision' = Unbound
          /\ executed' = Unbound
          /\ cmds' = <<>>
          /\ captures' = <<>>
          /\ remapped' = FALSE
          /\ pc' = "perceive"
     ELSE /\ pc' = "returned"
          /\ UNCHANGED <<step, it, phases, screen_context, decision,
                         executed, cmds, captures,
                         remapped>>
  /\ UNCHANGED <<exit_status, max_steps, remote_dump, local_dump, exc, reported,
                 done_seen, n_perceive, n_decide, n_execute, n_sleep>>
  /\ UNCHANGED <<llm_vars, san_vars>>

Perceive ==
  /\ pc = "perceive"
  /\ \E dump \in DumpAnswers, pull \in PullAnswers, readable \in BOOLEAN :
       /\ pull.rc = 0 =>
            (IF dump.wrote THEN TRUE ELSE remote_dump.exists)
       /\ LET r == get_screen_state(dump, pull, readable, remote_dump,
                                    local_dump, step)
          IN /\ remote_dump' = r.remote
             /\ local_dump' = r.local
             /\ captures' = r.issued
             /\ IF r.exc = "none"
                THEN /\ pc' = "decide"
                     /\ screen_context' = r.context
                     /\ UNCHANGED <<exc, reported>>
                ELSE /\ pc' = AfterError(r.exc)
                     /\ UNCHANGED screen_context
                     /\ exc' = r.exc
                     /\ reported' = (r.exc \in CaughtErrors)
  /\ n_perceive' = n_perceive + 1
  /\ phases' = Append(phases, "perceive")
  /\ UNCHANGED <<exit_status, max_steps, it, step, decision, executed, cmds, remapped,
                 done_seen, n_decide, n_execute, n_sleep>>
  /\ UNCHANGED <<llm_vars, san_vars>>

\* llm/client.py: LLMClient.get_decision hands back a dictionary with the
\* key "action" or raises LLMError.
Decide ==
  /\ pc = "decide"
  /\ \/ \E d \in Decisions :
          /\ decision' = d
          /\ pc' = "check"
          /\ UNCHANGED <<exc, reported>>
     \/ /\ pc' = AfterError("LLMError")
        /\ exc' = "LLMError"
        /\ reported' = ("LLMError" \in CaughtErrors)
        /\ UNCHANGED decision
  /\ n_decide' = n_decide + 1
  /\ phases' = Append(phases, "decide")
  /\ UNCHANGED <<exit_status, max_steps, it, step, remote_dump, local_dump,
                 screen_context, executed, cmds, captures, remapped,
                 done_seen,
                 n_perceive, n_execute, n_sleep>>
  /\ UNCHANGED <<llm_vars, san_vars>>

CheckDone ==
  /\ pc = "check"
  /\ IF IsDone(decision)
     THEN /\ pc' = "returned"
          /\ done_seen' = TRUE
     ELSE /\ pc' = "act"
          /\ UNCHANGED done_seen
  /\ phases' = Append(phases, "check")
  /\ UNCHANGED <<exit_status, max_steps, it, step, remote_dump, local_dump,
                 screen_context, decision, executed, cmds, captures,
                 remapped, exc,
                 reported, n_perceive, n_decide, n_execute, n_sleep>>
  /\ UNCHANGED <<llm_vars, san_vars>>

Act ==
  /\ pc = "act"
  /\ \E adb \in AdbAnswers(Dispatch(decision).handler) :
       LET r == execute(decision, adb)
       IN /\ executed' = decision
          /\ decision' = r.action
          /\ cmds' = r.cmds
          /\ remapped' = MappingPrinted(decision)
          /\ pc' = AfterExecute(r)
          /\ IF r.exc = "none"
             THEN UNCHANGED <<exc, reported>>
             ELSE /\ exc' = r.exc
                  /\ reported' = (r.exc \in CaughtErrors)
  /\ n_execute' = n_execute + 1
  /\ phases' = Append(phases, "act")
  /\ UNCHANGED <<exit_status, max_steps, it, step, remote_dump, local_dump,
                 screen_context, captures, done_seen, n_perceive, n_decide,
                 n_sleep>>
  /\ UNCHANGED <<llm_vars, san_vars>>

\* time.sleep(DEFAULT_WAIT_SECONDS)
Sleep ==
  /\ pc = "sleep"
  /\ pc' = "for"
  /\ n_sleep' = n_sleep + 1
  /\ phases' = Append(phases, "sleep")
  /\ UNCHANGED <<exit_status, max_steps, it, step, remote_dump, local_dump,
                 screen_context, decision, executed, cmds, captures,
                 remapped, exc,
                 reported, done_seen, n_perceive, n_decide, n_execute>>
  /\ UNCHANGED <<llm_vars, san_vars>>

Next == ForStep \/ Perceive \/ Decide \/ CheckDone \/ Act \/ Sleep

Spec == Init /\ [][Next]_vars

\* run has returned or raised.
Ended == pc \in {"returned", "raised"}

PcValues ==
  {"for", "perceive", "decide", "check", "act", "sleep", "returned", "raised"}

\* run moves on to its next statement.  Every step of Next changes pc, and
\* a run that has not ended has a step of Next to take.
Advance == ~Ended /\ pc' \in PcValues /\ pc' # pc

\* Each phase is a blocking call that returns or raises (screen capture,
\* model request, device command, sleep), so a run that has not ended keeps
\* moving on.
FairSpec == Spec /\ WF_pc(Advance)

TypeOK ==
  /\ pc \in PcValues
  /\ max_steps \in 0..MaxSteps
  /\ it \in 0..MaxSteps
  /\ step \in -1..(MaxSteps - 1)

(***************************************************************************)
(* Properties of the agent loop.                                           *)
(***************************************************************************)
PhaseOrder == <<"perceive", "decide", "check", "act", "sleep">>
IsPrefix(s, t) == Len(s) <= Len(t) /\ \A i \in 1..Len(s) : s[i] = t[i]
DoneTag == PyStr(S_done)

\* C1: a step whose decision has tag `done` returns in that step without
\* calling execute (the executor never receives a `done` action from the
\* loop), the step has perceived, decided and checked only, no device
\* command was issued in it, and nothing runs afterwards; when the first
\* decision is `done`, there was one perception and no execute call.
C1_DoneStopsRun ==
  /\ [](done_seen =>
          /\ pc = "returned"
          /\ decision["action"] = DoneTag
          /\ phases = <<"perceive", "decide", "check">>
          /\ executed = Unbound
          /\ cmds = <<>>
          /\ n_perceive = step + 1
          /\ n_decide = step + 1
          /\ n_execute = step
          /\ n_sleep = step)
  /\ [](executed # Unbound => executed["action"] # DoneTag)
  /\ [][~done_seen]_vars

C1_Witness ==
  /\ done_seen
  /\ pc = "returned"
  /\ max_steps = MaxSteps
  /\ n_perceive = 1
  /\ n_execute = 0

\* C2: an error raised by perception, decision or action in step k ends the
\* run with that error: the phases of step k after the failing one did not
\* run, the step was not retried (each phase ran at most once in it), and
\* no step is taken after the error.
C2_ErrorAborts ==
  /\ []((exc # "none") <=> (pc = "raised"))
  /\ [](pc = "raised" =>
          /\ Len(phases) >= 1
          /\ IsPrefix(phases, PhaseOrder)
          /\ phases[Len(phases)] \in {"perceive", "decide", "act"}
          /\ n_perceive = step + 1
          /\ n_decide = step + (IF Len(phases) >= 2 THEN 1 ELSE 0)
          /\ n_execute = step + (IF Len(phases) >= 4 THEN 1 ELSE 0)
          /\ n_sleep = step)
  /\ [][pc # "raised"]_vars

C2_Witness ==
  /\ pc = "raised"
  /\ exc = "ScreenCaptureError"
  /\ max_steps = MaxSteps
  /\ step = 0
  /\ n_perceive = 1
  /\ n_decide = 0
  /\ n_execute = 0

\* C3: the loop variable, once bound, lies in 0 .. max_steps-1; there are
\* at most max_steps perceptions, no more decisions than perceptions and no
\* more execute calls than decisions; with max_steps = 0 nothing runs.
C3_StepBudget ==
  /\ step \in -1..(max_steps - 1)
  /\ (pc \in {"perceive", "decide", "check", "act", "sleep"}
        => step \in 0..(max_steps - 1))
  /\ n_perceive <= max_steps
  /\ n_decide <= n_perceive
  /\ n_execute <= n_decide
  /\ n_sleep <= n_execute
  /\ (max_steps = 0 => n_perceive = 0 /\ n_decide = 0 /\ n_execute = 0)

C3_Witness ==
  /\ max_steps = MaxSteps
  /\ step = max_steps - 1
  /\ n_perceive = max_steps
  /\ n_execute = max_steps

\* C4: the run always ends; when it ends without an error and without a
\* `done` decision, exactly max_steps steps were completed.
C4_Terminates ==
  /\ <>Ended
  /\ [](pc = "returned" /\ ~done_seen =>
          /\ it = max_steps
          /\ n_perceive = max_steps
          /\ n_decide = max_steps
          /\ n_execute = max_steps
          /\ n_sleep = max_steps)

C4_Witness ==
  /\ pc = "returned"
  /\ ~done_seen
  /\ max_steps = MaxSteps
  /\ n_sleep = MaxSteps

\* C5 as stated: a run that returns normally has observed a `done`
\* decision, and a run that raised carries its error.
C5_ReturnImpliesDone ==
  /\ pc = "returned" => done_seen
  /\ pc = "raised" => exc # "none"

\* C5 amended: a run ends in one of three ways: by a `done` decision, by
\* the first error raised, or by exhausting the budget; a normal return
\* implies that a `done` decision was observed or that all max_steps steps
\* were completed, and it carries no error.
C5_ReturnDoneOrExhausted ==
  /\ pc = "returned" =>
       /\ exc = "none"
       /\ done_seen \/ (it = max_steps /\ n_sleep = max_steps)
       /\ ~(done_seen /\ n_sleep = max_steps)
  /\ pc = "raised" => exc # "none" /\ ~done_seen

C5_Witness ==
  /\ pc = "returned"
  /\ ~done_seen
  /\ exc = "none"
  /\ max_steps = 1
  /\ n_execute = 1

\* C6: the phases of a step run in the order perceive, decide, check, act,
\* sleep; a decision is requested only with the screen context of the same
\* step's perception; execute is called only after the decision and the
\* check of the same step, with the decision left as get_decision returned
\* it; a step's perception starts only when every earlier step has slept.
C6_PhaseOrder ==
  /\ [](IsPrefix(phases, PhaseOrder))
  /\ [](pc = "decide" => phases = <<"perceive">> /\ screen_context # Unbound)
  /\ [](pc = "check" => phases = <<"perceive", "decide">>)
  /\ [](pc = "act" => phases = <<"perceive", "decide", "check">>)
  /\ [](pc = "perceive" => phases = <<>> /\ n_sleep = step)
  /\ [](pc = "for" /\ step >= 0 => phases = PhaseOrder /\ n_sleep = step + 1)
  /\ [][pc = "check" => decision' = decision]_vars
  /\ [][pc = "act" => executed' = decision /\ n_decide' = step + 1]_vars

C6_Witness ==
  /\ pc = "perceive"
  /\ step = 1
  /\ n_sleep = 1
  /\ n_execute = 1

(***************************************************************************)
(* Properties of the action executor, read off the state an execute call   *)
(* leaves: executed is the action it was called with, cmds the commands it *)
(* issued, exc the exception it raised.                                    *)
(***************************************************************************)
ExecuteCalled == executed # Unbound
HandlerRun == Dispatch(executed).handler

\* The device commands of the goal-critical actions.
InputCommands ==
  {"shell input tap", "shell input text", "shell input keyevent",
   "shell input swipe"}

\* C7: when an input command (tap, text, keyevent, swipe) of a handler
\* exits with a non-zero code, execute raises ADBError and the run ends
\* with it.
C7_DeviceFailureRaises ==
  \A i \in 1..Len(cmds) :
    (cmds[i].cmd \in InputCommands /\ cmds[i].rc # 0)
      => (exc = "ADBError" /\ pc = "raised")

\* A tag that is a registered kind or an entry of the synonym table.
KnownTag(tag) ==
  /\ tag.t = "str"
  /\ tag.s \in (DOMAIN _action_handlers) \cup (DOMAIN action_mapping)

\* C8: when the tag of the action is missing (absent or null) or is
\* neither a registered kind nor an entry of the synonym table, execute
\* raises ValueError and issues no device command.
C8_UnknownTagRejected ==
  (ExecuteCalled /\ ~KnownTag(executed["action"]))
    => (exc = "ValueError" /\ pc = "raised" /\ cmds = <<>>)

\* A required parameter that is absent (no key, or null).
IsAbsent(v) == v \in {Absent, None}
\* A point parameter that is absent or a collection of a size other than 2.
AbsentOrMiscounted(v) == IsAbsent(v) \/ (HasLen(v) /\ PyLen(v) # 2)

RequiredParameterBad ==
  \/ /\ HandlerRun \in {"_handle_tap", "_handle_long_press"}
     /\ AbsentOrMiscounted(executed["coordinates"])
  \/ /\ HandlerRun = "_handle_swipe"
     /\ \/ AbsentOrMiscounted(executed["start"])
        \/ AbsentOrMiscounted(executed["end"])
  \/ HandlerRun = "_handle_type" /\ IsAbsent(executed["text"])
  \/ HandlerRun = "_handle_key" /\ IsAbsent(executed["keycode"])
  \/ HandlerRun = "_handle_open_app" /\ IsAbsent(executed["package"])

\* C9: when the parameter its handler requires is absent or has an element
\* count other than two (coordinates of tap and long_press, start and end
\* of swipe) or is absent (text, keycode, package), execute raises
\* ValueError and no device command was issued.
C9_MissingParameterRejected ==
  (ExecuteCalled /\ RequiredParameterBad)
    => (exc = "ValueError" /\ pc = "raised" /\ cmds = <<>>)

\* The text of a number, as str() writes an int.
IsNumberText(s) == AllDigits(Unsigned(s))

\* C10: every tap or swipe command issued carries numbers as its
\* coordinates (two words of a tap, the first four words of a swipe).
C10_CoordinatesNumeric ==
  \A i \in 1..Len(cmds) :
    /\ cmds[i].cmd = "shell input tap" =>
         \A j \in 1..2 : IsNumberText(cmds[i].args[j])
    /\ cmds[i].cmd = "shell input swipe" =>
         \A j \in 1..4 : IsNumberText(cmds[i].args[j])

(***************************************************************************)
(* The synonym step and the directional swipes.                            *)
(***************************************************************************)
\* The near-miss tags of the synonym table.
SynonymTags == DOMAIN action_mapping

\* The action with its tag replaced by the registered tag of a synonym.
WithRegisteredTag(action) ==
  [action EXCEPT !["action"] = PyStr(action_mapping[action["action"].s])]

\* What the last execute call left in the state, as execute yields it.
SameOutcome(r) ==
  /\ r.exc = exc
  /\ r.cmds = cmds
  /\ r.action = decision
  /\ pc = (IF r.exc = "none" THEN "sleep" ELSE "raised")

\* C11: an execute call with a tag of the synonym table prints the remap
\* message, leaves the action with the registered tag, runs the handler of
\* the registered tag and ends as the same call with the registered tag
\* would (same exception, same device commands, no remap message there);
\* with scroll_down the swipe_down handler runs and execute returns.
C11_SynonymRemapped ==
  (pc \in {"sleep", "raised"} /\ ExecuteCalled
     /\ executed["action"].t = "str"
     /\ executed["action"].s \in SynonymTags)
    => LET reg == WithRegisteredTag(executed)
           handler == _action_handlers[action_mapping[executed["action"].s]]
       IN /\ remapped
          /\ ~MappingPrinted(reg)
          /\ decision = reg
          /\ Dispatch(reg).handler = handler
          /\ \E adb \in AdbAnswers(handler) : SameOutcome(execute(reg, adb))
          /\ \A adb \in AdbAnswers(handler) :
               execute(executed, adb) = execute(reg, adb)
          /\ (executed["action"].s = S_scroll_down =>
                /\ handler = "_handle_swipe_down"
                /\ exc = "none"
                /\ pc = "sleep")

C11_Witness ==
  /\ pc = "sleep"
  /\ ExecuteCalled
  /\ executed["action"] = PyStr(S_scroll_down)
  /\ decision["action"] = PyStr(S_swipe_down)
  /\ remapped
  /\ Len(cmds) = 2
  /\ cmds[2].cmd = "shell input swipe"

DirectionalHandlers ==
  {"_handle_swipe_down", "_handle_swipe_up", "_handle_swipe_left",
   "_handle_swipe_right"}

\* A directional swipe has run to its end in the last execute call.
DirectionalSwipeDone ==
  /\ pc \in {"sleep", "raised"}
  /\ ExecuteCalled
  /\ HandlerRun \in DirectionalHandlers

\* The size the screen-dimension query handed to the handler, given the
\* answer of the size command.
ReportedSize(c) == _get_screen_dimensions([rc |-> c.rc, out |-> c.out]).size

\* The words x1 y1 x2 y2 of a swipe command, as numbers written by str().
PointWords(x1, y1, x2, y2) ==
  <<IntToStr(x1), IntToStr(y1), IntToStr(x2), IntToStr(y2)>>

\* The gesture of each directional swipe on a screen of W x H.
ExpectedGesture(handler, W, H) ==
  CASE handler = "_handle_swipe_down" ->
         PointWords(W \div 2, H \div 3, W \div 2, (2 * H) \div 3)
    [] handler = "_handle_swipe_up" ->
         PointWords(W \div 2, (2 * H) \div 3, W \div 2, H \div 3)
    [] handler = "_handle_swipe_right" ->
         PointWords(W \div 3, H \div 2, (2 * W) \div 3, H \div 2)
    [] handler = "_handle_swipe_left" ->
         PointWords((2 * W) \div 3, H \div 2, W \div 3, H \div 2)

\* The duration word: 300 unless the action has a duration.
ExpectedDuration(action) ==
  IF action["duration"] = Absent THEN <<"3","0","0">>
  ELSE Str(action["duration"])

\* C12: a directional swipe that was handed the size W x H issues one swipe
\* with the points of its direction computed by floor division and the
\* duration 300 unless the action supplies one; for the answer
\* "Physical size: 1080x1920" swipe_down issues 540 640 540 1280 300.
C12_DirectionalGesture ==
  DirectionalSwipeDone =>
    /\ Len(cmds) = 2
    /\ cmds[2].cmd = "shell input swipe"
    /\ LET size == ReportedSize(cmds[1])
       IN cmds[2].args =
            ExpectedGesture(HandlerRun, size[1], size[2])
              \o <<ExpectedDuration(executed)>>
    /\ (/\ HandlerRun = "_handle_swipe_down"
        /\ cmds[1].out = OutLabelled
        /\ executed["duration"] = Absent)
         => cmds[2].args =
              <<<<"5","4","0">>, <<"6","4","0">>, <<"5","4","0">>,
                <<"1","2","8","0">>, <<"3","0","0">>>>

C12_Witness ==
  /\ DirectionalSwipeDone
  /\ executed["action"] = PyStr(S_swipe_down)
  /\ cmds[1].out = OutBare
  /\ cmds[1].rc = 0
  /\ cmds[2].args =
       <<<<"3","6","0">>, <<"4","2","6">>, <<"3","6","0">>, <<"8","5","3">>,
         <<"3","0","0">>>>

\* The sizes the size command answers with in this model.
KnownSizes == {<<1080, 1920>>, <<720, 1280>>, <<1440, 2560>>, <<1079, 1919>>}

\* The text WIDTHxHEIGHT.
TokenText(sz) == NatToStr(sz[1]) \o <<"x">> \o NatToStr(sz[2])

\* The output starts with the token of sz, or with the label and the token.
CarriesToken(out, sz) ==
  \/ MatchAt(out, TokenText(sz), 1)
  \/ MatchAt(out, S_PhysicalSize \o <<" ">> \o TokenText(sz), 1)

\* C13: a directional swipe never raises and issues the size query and
\* then exactly one swipe; when the query succeeded and its output carries
\* a WIDTHxHEIGHT token, with or without the label, the gesture is the one
\* for that size; when the query failed or its output carries no such
\* token the gesture is the one for 1080x1920.
C13_SizeQueryNeverAborts ==
  DirectionalSwipeDone =>
    /\ exc = "none"
    /\ pc = "sleep"
    /\ Len(cmds) = 2
    /\ cmds[1].cmd = "shell wm size"
    /\ cmds[2].cmd = "shell input swipe"
    /\ \A sz \in KnownSizes :
         (cmds[1].rc = 0 /\ CarriesToken(cmds[1].out, sz))
           => SubSeq(cmds[2].args, 1, 4)
                = ExpectedGesture(HandlerRun, sz[1], sz[2])
    /\ (cmds[1].rc # 0 \/ \A sz \in KnownSizes : ~CarriesToken(cmds[1].out, sz))
         => SubSeq(cmds[2].args, 1, 4)
              = ExpectedGesture(HandlerRun, DefaultWidth, DefaultHeight)

(***************************************************************************)
(* json.loads, for the texts of this model: objects, arrays, strings       *)
(* without escapes, integers, decimals without exponent, true, false and   *)
(* null, with whitespace between the tokens.  A dict keeps its keys in     *)
(* insertion order with their values; a repeated key keeps its place and   *)
(* takes the last value.                                                   *)
(***************************************************************************)
PyFloat(neg, ip, fp) == [t |-> "float", neg |-> neg, ip |-> ip, fp |-> fp]
JsonObject(k, v) == [t |-> "dict", k |-> k, v |-> v]
EmptyObject == JsonObject(<<>>, <<>>)

KeyIndex(d, key) ==
  IF \E j \in 1..Len(d.k) : d.k[j] = key
  THEN CHOOSE j \in 1..Len(d.k) : d.k[j] = key
  ELSE 0

\* `key in d`
DictHas(d, key) == KeyIndex(d, key) # 0

\* d.get(key, default)
DictGet(d, key, default) ==
  IF DictHas(d, key) THEN d.v[KeyIndex(d, key)] ELSE default

\* d[key] = val
DictPut(d, key, val) ==
  IF DictHas(d, key)
  THEN JsonObject(d.k, [d.v EXCEPT ![KeyIndex(d, key)] = val])
  ELSE JsonObject(Append(d.k, key), Append(d.v, val))

JsonWhitespace == {" ", "\t", "\n", "\r"}

\* The character at i, "" past the end of the text.
At(s, i) == IF i \in 1..Len(s) THEN s[i] ELSE ""

RECURSIVE SkipWs(_, _)
SkipWs(s, i) ==
  IF At(s, i) \in JsonWhitespace THEN SkipWs(s, i + 1) ELSE i

\* The index after the run of digits that starts at i.
RECURSIVE DigitRun(_, _)
DigitRun(s, i) == IF IsDigit(At(s, i)) THEN DigitRun(s, i + 1) ELSE i

\* The index of the quote that closes a string whose content starts at i,
\* 0 when the text ends first.
RECURSIVE StringEnd(_, _)
StringEnd(s, i) ==
  IF i > Len(s) THEN 0
  ELSE IF s[i] = "\"" THEN i
  ELSE StringEnd(s, i + 1)

\* A parse step yields whether it succeeded, the value and the index after
\* the value.
ParseFailed == [ok |-> FALSE, v |-> None, i |-> 0]
Parsed(v, i) == [ok |-> TRUE, v |-> v, i |-> i]

StringUpTo(s, i, j) ==
  IF j = 0 THEN ParseFailed ELSE Parsed(PyStr(SubSeq(s, i + 1, j - 1)), j + 1)

ParseString(s, i) ==
  IF At(s, i) = "\"" THEN StringUpTo(s, i, StringEnd(s, i + 1))
  ELSE ParseFailed

\* The integer part is 0 or starts with a digit other than 0.
IntEnd(s, start) ==
  IF At(s, start) = "0" THEN start + 1 ELSE DigitRun(s, start)

NumberValue(s, neg, start, e, f) ==
  IF At(s, e) = "." /\ f > e + 1
  THEN Parsed(PyFloat(neg, DigitsToNat(SubSeq(s, start, e - 1), 0),
                      SubSeq(s, e + 1, f - 1)), f)
  ELSE Parsed(PyInt(IF neg THEN 0 - DigitsToNat(SubSeq(s, start, e - 1), 0)
                    ELSE DigitsToNat(SubSeq(s, start, e - 1), 0)), e)

NumberFrom(s, neg, start) ==
  IF ~IsDigit(At(s, start)) THEN ParseFailed
  ELSE NumberValue(s, neg, start, IntEnd(s, start),
                   DigitRun(s, IntEnd(s, start) + 1))

ParseNumber(s, i) ==
  IF At(s, i) = "-" THEN NumberFrom(s, TRUE, i + 1)
  ELSE NumberFrom(s, FALSE, i)

ParseWord(s, i, word, v) ==
  IF MatchAt(s, word, i) THEN Parsed(v, i + Len(word)) ELSE ParseFailed

RECURSIVE ParseValue(_, _)
RECURSIVE ParseElements(_, _, _)
RECURSIVE ElementsAfter(_, _, _, _)
RECURSIVE ParseMembers(_, _, _)
RECURSIVE MemberValue(_, _, _, _)
RECURSIVE MembersAfter(_, _, _, _, _)

\* After an element r of an array whose earlier elements are es.
ElementsAfter(s, es, r, e) ==
  IF At(s, e) = "," THEN ParseElements(s, SkipWs(s, e + 1), Append(es, r.v))
  ELSE IF At(s, e) = "]" THEN Parsed(PyList(Append(es, r.v)), e + 1)
  ELSE ParseFailed

ParseElements(s, i, es) ==
  IF ~ParseValue(s, i).ok THEN ParseFailed
  ELSE ElementsAfter(s, es, ParseValue(s, i),
                     SkipWs(s, ParseValue(s, i).i))

\* After a member key: value r of an object whose earlier members are d.
MembersAfter(s, d, key, r, e) ==
  IF At(s, e) = ","
  THEN ParseMembers(s, SkipWs(s, e + 1), DictPut(d, key, r.v))
  ELSE IF At(s, e) = "}" THEN Parsed(DictPut(d, key, r.v), e + 1)
  ELSE ParseFailed

MemberValue(s, d, key, c) ==
  IF At(s, c) # ":" THEN ParseFailed
  ELSE IF ~ParseValue(s, SkipWs(s, c + 1)).ok THEN ParseFailed
  ELSE MembersAfter(s, d, key, ParseValue(s, SkipWs(s, c + 1)),
                    SkipWs(s, ParseValue(s, SkipWs(s, c + 1)).i))

ParseMembers(s, i, d) ==
  IF ~ParseString(s, i).ok THEN ParseFailed
  ELSE MemberValue(s, d, ParseString(s, i).v.s,
                   SkipWs(s, ParseString(s, i).i))

ParseValue(s, i) ==
  CASE At(s, i) = "{" ->
         IF At(s, SkipWs(s, i + 1)) = "}"
         THEN Parsed(EmptyObject, SkipWs(s, i + 1) + 1)
         ELSE ParseMembers(s, SkipWs(s, i + 1), EmptyObject)
    [] At(s, i) = "[" ->
         IF At(s, SkipWs(s, i + 1)) = "]"
         THEN Parsed(PyList(<<>>), SkipWs(s, i + 1) + 1)
         ELSE ParseElements(s, SkipWs(s, i + 1), <<>>)
    [] At(s, i) = "\"" -> ParseString(s, i)
    [] At(s, i) = "t" -> ParseWord(s, i, <<"t","r","u","e">>, PyBool(TRUE))
    [] At(s, i) = "f" ->
         ParseWord(s, i, <<"f","a","l","s","e">>, PyBool(FALSE))
    [] At(s, i) = "n" -> ParseWord(s, i, <<"n","u","l","l">>, None)
    [] OTHER -> ParseNumber(s, i)

\* json.loads(s): ok is FALSE where it raises JSONDecodeError; text after
\* the value other than whitespace is an error ("Extra data").
WholeText(s, r) ==
  IF r.ok /\ SkipWs(s, r.i) = Len(s) + 1 THEN r ELSE ParseFailed

json_loads(s) == WholeText(s, ParseValue(s, SkipWs(s, 1)))

(***************************************************************************)
(* Values and texts the decoders of llm/ work with.                        *)
(***************************************************************************)
\* The first n items of s: s[:n]
Prefix(s, n) == SubSeq(s, 1, IF Len(s) < n THEN Len(s) ELSE n)

\* sep.join(parts)
RECURSIVE Join(_, _)
Join(parts, sep) ==
  IF Len(parts) = 0 THEN <<>>
  ELSE IF Len(parts) = 1 THEN parts[1]
  ELSE parts[1] \o sep \o Join(Tail(parts), sep)

\* type(v).__name__
TypeName(v) ==
  CASE v.t = "none" -> <<"N","o","n","e","T","y","p","e">>
    [] v.t = "str" -> <<"s","t","r">>
    [] v.t = "int" -> <<"i","n","t">>
    [] v.t = "bool" -> <<"b","o","o","l">>
    [] v.t = "float" -> <<"f","l","o","a","t">>
    [] v.t = "list" -> <<"l","i","s","t">>
    [] v.t = "dict" -> <<"d","i","c","t">>

\* repr(v), for text without quotes, backslashes and control characters.
RECURSIVE Repr(_)
Repr(v) ==
  CASE v.t = "str" -> <<"'">> \o v.s \o <<"'">>
    [] v.t = "float" ->
         (IF v.neg THEN <<"-">> ELSE <<>>) \o NatToStr(v.ip) \o <<".">>
           \o v.fp
    [] v.t = "list" ->
         <<"[">> \o Join([i \in 1..Len(v.e) |-> Repr(v.e[i])], <<",", " ">>)
           \o <<"]">>
    [] v.t = "dict" ->
         <<"{">>
           \o Join([i \in 1..Len(v.k) |->
                      Repr(PyStr(v.k[i])) \o <<":", " ">> \o Repr(v.v[i])],
                   <<",", " ">>)
           \o <<"}">>
    [] OTHER -> Str(v)

\* str(v)
StrOf(v) == IF v.t = "str" THEN v.s ELSE Repr(v)

\* The digits before and after the point of an unsigned decimal text.
PointIndex(b) ==
  IF \E i \in 1..Len(b) : b[i] = "."
  THEN CHOOSE i \in 1..Len(b) : b[i] = "."
  ELSE Len(b) + 1

IntegerDigits(b) == SubSeq(b, 1, PointIndex(b) - 1)
FractionDigits(b) == SubSeq(b, PointIndex(b) + 1, Len(b))

\* float(s) of a text accepts surrounding whitespace, one optional sign,
\* digits and one optional point with a digit on at least one side (the
\* texts of this model have no exponent, underscore, inf or nan).
DecimalParses(b) ==
  /\ \A i \in 1..Len(IntegerDigits(b)) : IsDigit(IntegerDigits(b)[i])
  /\ \A i \in 1..Len(FractionDigits(b)) : IsDigit(FractionDigits(b)[i])
  /\ Len(IntegerDigits(b)) + Len(FractionDigits(b)) > 0

FloatParses(s) == DecimalParses(Unsigned(Strip(s)))

\* int(float(s)): the integer part, truncated toward zero.
TruncatedFloat(s) ==
  IF IsNegative(Strip(s))
  THEN 0 - DigitsToNat(IntegerDigits(Unsigned(Strip(s))), 0)
  ELSE DigitsToNat(IntegerDigits(Unsigned(Strip(s))), 0)

\* Whether float(v) is defined, and int(float(v)).
FloatDefined(v) ==
  \/ v.t \in {"int", "bool", "float"}
  \/ v.t = "str" /\ FloatParses(v.s)

IntOfFloat(v) ==
  CASE v.t = "int" -> v.n
    [] v.t = "bool" -> IF v.b THEN 1 ELSE 0
    [] v.t = "float" -> IF v.neg THEN 0 - v.ip ELSE v.ip
    [] v.t = "str" -> TruncatedFloat(v.s)

\* The texts of the messages and keys.
S_reason == <<"r","e","a","s","o","n">>
S_action == <<"a","c","t","i","o","n">>
S_coordinates == <<"c","o","o","r","d","i","n","a","t","e","s">>
S_text == <<"t","e","x","t">>
NoReasonProvided ==
  <<"N","o"," ","r","e","a","s","o","n"," ","p","r","o","v","i","d","e","d">>
M_LLMError == <<"L","L","M","E","r","r","o","r">>
M_AttributeError ==
  <<"A","t","t","r","i","b","u","t","e","E","r","r","o","r">>
M_NoChoices ==
  <<"N","o"," ","c","h","o","i","c","e","s"," ","i","n"," ","L","L","M"," ",
    "r","e","s","p","o","n","s","e">>
M_NoFunctionCall ==
  <<"N","o"," ","f","u","n","c","t","i","o","n"," ","c","a","l","l"," ","i",
    "n"," ","L","L","M"," ","r","e","s","p","o","n","s","e","."," ","F","i",
    "n","i","s","h"," ","r","e","a","s","o","n",":"," ">>
M_Content == <<","," ","C","o","n","t","e","n","t",":"," ">>
M_BadArguments ==
  <<"F","a","i","l","e","d"," ","t","o"," ","p","a","r","s","e"," ","f","u",
    "n","c","t","i","o","n"," ","a","r","g","u","m","e","n","t","s"," ","a",
    "s"," ","J","S","O","N",":"," ">>
M_RawArguments ==
  <<"\n","R","a","w"," ","a","r","g","u","m","e","n","t","s",":"," ">>
M_HasNoGet ==
  <<"'"," ","o","b","j","e","c","t"," ","h","a","s"," ","n","o"," ","a","t",
    "t","r","i","b","u","t","e"," ","'","g","e","t","'">>
M_TapMissing ==
  <<"T","a","p"," ","a","c","t","i","o","n"," ","m","i","s","s","i","n","g",
    " ","'","c","o","o","r","d","i","n","a","t","e","s","'"," ","f","i","e",
    "l","d">>
M_InvalidCoordinates ==
  <<"I","n","v","a","l","i","d"," ","c","o","o","r","d","i","n","a","t","e",
    "s"," ","f","o","r","m","a","t",":"," ">>
M_FailedCoordinates ==
  <<"F","a","i","l","e","d"," ","t","o"," ","p","a","r","s","e"," ","c","o",
    "o","r","d","i","n","a","t","e","s",":"," ">>
M_TypeMissing ==
  <<"T","y","p","e"," ","a","c","t","i","o","n"," ","m","i","s","s","i","n",
    "g"," ","'","t","e","x","t","'"," ","f","i","e","l","d">>
M_ContentNone ==
  <<"C","o","n","t","e","n","t"," ","i","s"," ","N","o","n","e"," ","i","n",
    " ","L","L","M"," ","r","e","s","p","o","n","s","e">>
M_EmptyContent ==
  <<"E","m","p","t","y"," ","o","r"," ","w","h","i","t","e","s","p","a","c",
    "e","-","o","n","l","y"," ","c","o","n","t","e","n","t"," ","i","n"," ",
    "L","L","M"," ","r","e","s","p","o","n","s","e">>
M_NotObject ==
  <<"L","L","M"," ","r","e","s","p","o","n","s","e"," ","i","s"," ","n","o",
    "t"," ","a"," ","J","S","O","N"," ","o","b","j","e","c","t","."," ","G",
    "o","t",":"," ">>
M_MissingAction ==
  <<"L","L","M"," ","r","e","s","p","o","n","s","e"," ","m","i","s","s","i",
    "n","g"," ","r","e","q","u","i","r","e","d"," ","'","a","c","t","i","o",
    "n","'"," ","f","i","e","l","d",".">>
M_BadContent ==
  <<"F","a","i","l","e","d"," ","t","o"," ","p","a","r","s","e"," ","L","L",
    "M"," ","r","e","s","p","o","n","s","e"," ","a","s"," ","J","S","O","N",
    ":"," ">>
\* str(e) of a JSONDecodeError.  json has a handful of fixed texts followed
\* by the position; none of them has a keyword of client.py:61, and one
\* of them stands for all here.
M_DecodeError ==
  <<"E","x","p","e","c","t","i","n","g"," ","v","a","l","u","e">>
K_function_call == <<"f","u","n","c","t","i","o","n"," ","c","a","l","l">>
K_tool_call == <<"t","o","o","l","_","c","a","l","l">>
K_tool_call_spaced == <<"t","o","o","l"," ","c","a","l","l">>
K_no_function == <<"n","o"," ","f","u","n","c","t","i","o","n">>

M_ResponseKeys ==
  <<"\n","R","e","s","p","o","n","s","e"," ","k","e","y","s",":"," ">>
M_ResponseContent ==
  <<"\n","R","e","s","p","o","n","s","e"," ","c","o","n","t","e","n","t",
    " ","(","f","i","r","s","t"," ","2","0","0"," ","c","h","a","r","s",")",
    ":"," ">>
M_Response == <<"\n","R","e","s","p","o","n","s","e",":"," ">>

(***************************************************************************)
(* What chat.completions.create answers: it raises an exception, or it     *)
(* returns a response with no choice or with one message that has a        *)
(* content (None or text) and tool calls (None or a list of calls, each    *)
(* the name of a function and the text of its arguments).                  *)
(***************************************************************************)
ApiError(type, text) == [kind |-> "error", type |-> type, text |-> text]
NoChoices == [kind |-> "reply", choices |-> 0]
Message(finish_reason, content, tool_calls) ==
  [kind |-> "reply", choices |-> 1, finish_reason |-> finish_reason,
   content |-> content, tool_calls |-> tool_calls]
ToolCall(name, arguments) == [name |-> name, arguments |-> arguments]

\* What get_decision of a strategy yields: the exception it raises ("none"
\* when it returns), the message of the exception and the action returned.
Failure(type, text) ==
  [exc |-> "LLMError", msg |-> type \o <<":", " ">> \o text, action |-> None]
Decided(action) == [exc |-> "none", msg |-> <<>>, action |-> action]

\* bool(v) of a decoded JSON value.
TruthyJson(v) ==
  IF v.t = "float"
  THEN v.ip # 0 \/ \E i \in 1..Len(v.fp) : v.fp[i] # "0"
  ELSE Truthy(v)

(***************************************************************************)
(* llm/json_mode.py: JSONModeClient.get_decision, lines 69-130.  Every     *)
(* LLMError raised inside the try block is caught by `except Exception`    *)
(* and raised again as an LLMError whose message starts with "LLMError: ". *)
(***************************************************************************)
\* Variant of HasActionField: a decode that does not look for the field.
HasActionFieldAlways(parsed_json) == TRUE

\* `"action" in parsed_json`
HasActionField(parsed_json) == DictHas(parsed_json, S_action)

\* Lines 98-126, for the content after strip().
DecodeContent(content, r) ==
  IF ~r.ok
  THEN Failure(M_LLMError,
               M_BadContent \o M_DecodeError \o M_ResponseContent
                 \o Repr(PyStr(Prefix(content, 200))))
  ELSE IF r.v.t # "dict"
  THEN Failure(M_LLMError,
               M_NotObject \o TypeName(r.v) \o M_Response
                 \o Prefix(content, 200))
  ELSE IF ~HasActionField(r.v)
  THEN Failure(M_LLMError,
               M_MissingAction \o M_ResponseKeys
                 \o Repr(PyList([i \in 1..Len(r.v.k) |-> PyStr(r.v.k[i])]))
                 \o M_Response \o Prefix(content, 300))
  ELSE Decided(r.v)

JSONModeClient_get_decision(response) ==
  IF response.kind = "error"
  THEN Failure(response.type, response.text)
  ELSE IF response.choices = 0 THEN Failure(M_LLMError, M_NoChoices)
  ELSE IF response.content = None THEN Failure(M_LLMError, M_ContentNone)
  ELSE IF Len(Strip(response.content.s)) = 0
  THEN Failure(M_LLMError, M_EmptyContent)
  ELSE DecodeContent(Strip(response.content.s),
                     json_loads(Strip(response.content.s)))

(***************************************************************************)
(* llm/function_calling.py: FunctionCallingClient.get_decision, lines      *)
(* 66-161.  As in JSON mode, every LLMError raised inside the try block is *)
(* raised again by `except Exception` with "LLMError: " before its text.   *)
(***************************************************************************)
\* Lines 84-98: the message when the response has no tool call.
NoFunctionCallMessage(message) ==
  IF Truthy(message.content)
  THEN M_NoFunctionCall \o Str(message.finish_reason) \o M_Content
         \o Prefix(message.content.s, 200)
  ELSE M_NoFunctionCall \o Str(message.finish_reason)

\* Variant of TapCoordinates: the coordinates passed on as they came.
TapCoordinatesAsGiven(action, coordinates) ==
  IF ~TruthyJson(coordinates) THEN Failure(M_LLMError, M_TapMissing)
  ELSE Decided(DictPut(action, S_coordinates, coordinates))

\* Lines 122-139: the coordinates of a tap, each through int(float()).
TapCoordinates(action, coordinates) ==
  IF ~TruthyJson(coordinates) THEN Failure(M_LLMError, M_TapMissing)
  ELSE IF coordinates.t = "list" /\ Len(coordinates.e) = 2
  THEN IF FloatDefined(coordinates.e[1]) /\ FloatDefined(coordinates.e[2])
       THEN Decided(DictPut(action, S_coordinates,
                            PyList(<<PyInt(IntOfFloat(coordinates.e[1])),
                                     PyInt(IntOfFloat(coordinates.e[2]))>>)))
       ELSE Failure(M_LLMError, M_FailedCoordinates \o StrOf(coordinates))
  ELSE Failure(M_LLMError, M_InvalidCoordinates \o StrOf(coordinates))

\* Lines 141-145: the text of a type action, through str().
TypeText(action, text) ==
  IF ~TruthyJson(text) THEN Failure(M_LLMError, M_TypeMissing)
  ELSE Decided(DictPut(action, S_text, PyStr(StrOf(text))))

\* Lines 116-119: the action with its tag and its reason.
BaseAction(function_name, function_args) ==
  JsonObject(<<S_action, S_reason>>,
             <<PyStr(function_name),
               DictGet(function_args, S_reason, PyStr(NoReasonProvided))>>)

\* Lines 115-152, for arguments that json.loads decoded to a dict.
ActionOfCall(function_name, function_args) ==
  IF function_name = S_tap
  THEN TapCoordinates(BaseAction(function_name, function_args),
                      DictGet(function_args, S_coordinates, PyList(<<>>)))
  ELSE IF function_name = S_type
  THEN TypeText(BaseAction(function_name, function_args),
                DictGet(function_args, S_text, None))
  ELSE Decided(BaseAction(function_name, function_args))

\* Lines 100-152, for the first tool call; r is json.loads of its
\* arguments.  function_args.get of a value that is no dict raises
\* AttributeError.
DecodeCall(tool_call, r) ==
  IF ~r.ok
  THEN Failure(M_LLMError,
               M_BadArguments \o M_DecodeError \o M_RawArguments
                 \o Repr(PyStr(tool_call.arguments)))
  ELSE IF r.v.t # "dict"
  THEN Failure(M_AttributeError, <<"'">> \o TypeName(r.v) \o M_HasNoGet)
  ELSE ActionOfCall(tool_call.name, r.v)

\* Variant of FirstCall: the last tool call of the message.
LastCall(tool_calls) == tool_calls.e[Len(tool_calls.e)]

\* `message.tool_calls[0]`
FirstCall(tool_calls) == tool_calls.e[1]

FunctionCallingClient_get_decision(response) ==
  IF response.kind = "error"
  THEN Failure(response.type, response.text)
  ELSE IF response.choices = 0 THEN Failure(M_LLMError, M_NoChoices)
  ELSE IF ~Truthy(response.tool_calls)
  THEN Failure(M_LLMError, NoFunctionCallMessage(response))
  ELSE DecodeCall(FirstCall(response.tool_calls),
                  json_loads(FirstCall(response.tool_calls).arguments))

(***************************************************************************)
(* The answers of the provider in this model.                              *)
(***************************************************************************)
S_stop == <<"s","t","o","p">>
S_tool_calls == <<"t","o","o","l","_","c","a","l","l","s">>
E_APIConnectionError ==
  <<"A","P","I","C","o","n","n","e","c","t","i","o","n","E","r","r","o","r">>
E_ConnectionError ==
  <<"C","o","n","n","e","c","t","i","o","n"," ","e","r","r","o","r",".">>
E_RateLimitError ==
  <<"R","a","t","e","L","i","m","i","t","E","r","r","o","r">>
E_QuotaText ==
  <<"E","r","r","o","r"," ","c","o","d","e",":"," ","4","2","9"," ","-"," ",
    "t","o","o","l"," ","c","a","l","l"," ","q","u","o","t","a"," ","e","x",
    "c","e","e","d","e","d">>
ContentProseReply ==
  <<"I"," ","w","i","l","l"," ","t","a","p"," ","t","h","e"," ","b","u","t",
    "t","o","n">>
A_TapStrings ==
  <<"{","\"","c","o","o","r","d","i","n","a","t","e","s","\"",":","[","\"",
    "1","0","\"",",","\"","2","0","\"","]","}">>
A_TapNumbers ==
  <<"{","\"","c","o","o","r","d","i","n","a","t","e","s","\"",":","[","1",
    "0",",","2","0","]",",","\"","r","e","a","s","o","n","\"",":","\"","r",
    "\"","}">>
A_TapWord ==
  <<"{","\"","c","o","o","r","d","i","n","a","t","e","s","\"",":","[","\"",
    "1","0","\"",",","\"","a","b","\"","]","}">>
A_TapDecimals ==
  <<"{","\"","c","o","o","r","d","i","n","a","t","e","s","\"",":","[","1",
    "0",".","7",",","\""," ","2","0"," ","\"","]","}">>
A_TapNothing == <<"{","}">>
A_TapOne ==
  <<"{","\"","c","o","o","r","d","i","n","a","t","e","s","\"",":","[","1",
    "0","]","}">>
A_TapText ==
  <<"{","\"","c","o","o","r","d","i","n","a","t","e","s","\"",":","\"","a",
    "b","\"","}">>
A_TapCut ==
  <<"{","\"","c","o","o","r","d","i","n","a","t","e","s","\"",":","[","1",
    "0",",","2","0">>
A_TapNull ==
  <<"{","\"","c","o","o","r","d","i","n","a","t","e","s","\"",":","[","n",
    "u","l","l",",","1","]","}">>
A_TapSigned ==
  <<"{","\"","c","o","o","r","d","i","n","a","t","e","s","\"",":","[","\"",
    "-","3",".","9","\"",",","t","r","u","e","]","}">>
A_Type ==
  <<"{","\"","t","e","x","t","\"",":","\"","h","i"," ","y","o","\"","}">>
A_TypeNumber == <<"{","\"","t","e","x","t","\"",":","5","}">>
A_TypeNothing == <<"{","}">>
A_Home == <<"{","\"","r","e","a","s","o","n","\"",":","\"","g","o","\"","}">>
A_HomeReasonNumber == <<"{","\"","r","e","a","s","o","n","\"",":","5","}">>
A_LongPress ==
  <<"{","\"","c","o","o","r","d","i","n","a","t","e","s","\"",":","[","1",
    ",","2","]",",","\"","d","u","r","a","t","i","o","n","\"",":","5","0",
    "0","}">>
A_HomeList == <<"[","1","]">>
A_HomeThenBack == <<"{","}">>
A_HomeThenBack2 == <<"{","}">>
A_Swipe ==
  <<"{","\"","s","t","a","r","t","\"",":","[","1",",","2","]",",","\"","e",
    "n","d","\"",":","[","3",",","4","]",",","\"","r","e","a","s","o","n",
    "\"",":","\"","r","\"","}">>
A_HomeCutKeyword ==
  <<"{","\"","r","e","a","s","o","n","\"",":","\"","r","e","t","r","y"," ",
    "t","h","e"," ","t","o","o","l"," ","c","a","l","l">>
A_Done == <<"{","\"","r","e","a","s","o","n","\"",":","\"","o","k","\"","}">>
ContentTap ==
  <<"{","\"","a","c","t","i","o","n","\"",":","\"","t","a","p","\"",",",
    "\"","c","o","o","r","d","i","n","a","t","e","s","\"",":","[","1","0",
    ",","2","0","]",",","\"","r","e","a","s","o","n","\"",":","\"","x","\"",
    "}">>
ContentNoAction ==
  <<"{","\"","r","e","a","s","o","n","\"",":","\"","x","\"","}">>
ContentList == <<"[","1",",","2","]">>
ContentWord == <<"\"","t","a","p","\"">>
ContentNull == <<"n","u","l","l">>
ContentCut ==
  <<"{","\"","a","c","t","i","o","n","\"",":","\"","h","o","m","e","\"">>
ContentDonePadded ==
  <<" ","{","\"","a","c","t","i","o","n","\"",":","\"","d","o","n","e","\"",
    ",","\"","r","e","a","s","o","n","\"",":","\"","o","k","\"","}","\n">>
ContentTapExtra ==
  <<"{","\"","a","c","t","i","o","n","\"",":","\"","t","a","p","\"",",",
    "\"","c","o","o","r","d","i","n","a","t","e","s","\"",":","[","1","0",
    ",","2","0","]",",","\"","t","e","x","t","\"",":","\"","x","\"","}">>
ContentTagNumber == <<"{","\"","a","c","t","i","o","n","\"",":","5","}">>
ContentHome ==
  <<"{","\"","a","c","t","i","o","n","\"",":","\"","h","o","m","e","\"","}">>
ContentProse == <<"n","o","t"," ","j","s","o","n">>
ContentReasonNumber ==
  <<"{","\"","a","c","t","i","o","n","\"",":","\"","h","o","m","e","\"",",",
    "\"","r","e","a","s","o","n","\"",":","7","}">>
ContentBlank == <<" "," ","\n">>
ContentEmpty == <<>>

\* A transport failure, and one whose text has the words "tool call".
ConnectionFailure == ApiError(E_APIConnectionError, E_ConnectionError)
QuotaFailure == ApiError(E_RateLimitError, E_QuotaText)

Called(calls) == Message(PyStr(S_tool_calls), None, PyList(calls))
CallTapStrings == Called(<<ToolCall(S_tap, A_TapStrings)>>)
CallTapNumbers == Called(<<ToolCall(S_tap, A_TapNumbers)>>)
CallTapWord == Called(<<ToolCall(S_tap, A_TapWord)>>)
CallTapDecimals == Called(<<ToolCall(S_tap, A_TapDecimals)>>)
CallTapNothing == Called(<<ToolCall(S_tap, A_TapNothing)>>)
CallTapOne == Called(<<ToolCall(S_tap, A_TapOne)>>)
CallTapText == Called(<<ToolCall(S_tap, A_TapText)>>)
CallTapCut == Called(<<ToolCall(S_tap, A_TapCut)>>)
CallTapNull == Called(<<ToolCall(S_tap, A_TapNull)>>)
CallTapSigned == Called(<<ToolCall(S_tap, A_TapSigned)>>)
CallType == Called(<<ToolCall(S_type, A_Type)>>)
CallTypeNumber == Called(<<ToolCall(S_type, A_TypeNumber)>>)
CallTypeNothing == Called(<<ToolCall(S_type, A_TypeNothing)>>)
CallHome == Called(<<ToolCall(S_home, A_Home)>>)
CallHomeReasonNumber == Called(<<ToolCall(S_home, A_HomeReasonNumber)>>)
CallLongPress == Called(<<ToolCall(S_long_press, A_LongPress)>>)
CallHomeList == Called(<<ToolCall(S_home, A_HomeList)>>)
CallHomeThenBack ==
  Called(<<ToolCall(S_home, A_HomeThenBack),
           ToolCall(S_back, A_HomeThenBack2)>>)
CallSwipe == Called(<<ToolCall(S_swipe, A_Swipe)>>)
CallHomeCutKeyword == Called(<<ToolCall(S_home, A_HomeCutKeyword)>>)
CallDone == Called(<<ToolCall(S_done, A_Done)>>)

\* The answers to a request with tools.
ToolResponses ==
  {ConnectionFailure, QuotaFailure, NoChoices,
   Message(PyStr(S_stop), None, None),
   Message(PyStr(S_stop), PyStr(ContentProseReply), PyList(<<>>)),
   CallTapStrings, CallTapNumbers, CallTapWord, CallTapDecimals,
   CallTapNothing, CallTapOne, CallTapText, CallTapCut, CallTapNull,
   CallTapSigned, CallType, CallTypeNumber, CallTypeNothing, CallHome,
   CallHomeReasonNumber, CallLongPress, CallHomeList, CallHomeThenBack,
   CallSwipe, CallHomeCutKeyword, CallDone}

Said(content) == Message(PyStr(S_stop), PyStr(content), None)

\* The answers to a request for a JSON object.
JsonResponses ==
  {ConnectionFailure, QuotaFailure, NoChoices,
   Message(PyStr(S_stop), None, None),
   Said(ContentTap), Said(ContentNoAction), Said(ContentList),
   Said(ContentWord), Said(ContentNull), Said(ContentCut),
   Said(ContentDonePadded), Said(ContentTapExtra), Said(ContentTagNumber),
   Said(ContentHome), Said(ContentProse), Said(ContentReasonNumber),
   Said(ContentBlank), Said(ContentEmpty)}

(***************************************************************************)
(* llm/client.py: LLMClient.  __init__ selects the handler by the          *)
(* provider; get_decision calls it and, for ollama, calls the JSON mode    *)
(* client when the message of its LLMError has one of four keywords.       *)
(***************************************************************************)
Providers == {"openai", "glm", "ollama"}

\* Lines 30-36: the strategy of self.handler.
HandlerStrategy(p) == IF p = "ollama" THEN "tools" ELSE "json"

\* Variant of HasFallback: every provider has the JSON mode fallback.
HasFallbackAlways(p) == TRUE

\* `self.config.provider == "ollama" and self.json_fallback`
HasFallback(p) == p = "ollama"

Keywords == {K_function_call, K_tool_call, K_tool_call_spaced, K_no_function}

\* Variant of FunctionCallingRelated: no failure is taken to be one of
\* function calling.
FunctionCallingRelatedNever(error_msg) == FALSE

\* Lines 59-61: a keyword occurs in the lower-cased message.
FunctionCallingRelated(error_msg) ==
  \E keyword \in Keywords : Contains(Lower(error_msg), keyword)

ResponsesTo(strategy) ==
  IF strategy = "tools" THEN ToolResponses ELSE JsonResponses

\* get_decision of the client of a strategy.
DecisionOf(strategy, response) ==
  IF strategy = "tools" THEN FunctionCallingClient_get_decision(response)
  ELSE JSONModeClient_get_decision(response)

\* Where get_decision stands when its handler has yielded r (lines 53-67).
AfterHandler(p, r) ==
  IF r.exc = "none" THEN "returned"
  ELSE IF HasFallback(p) /\ FunctionCallingRelated(r.msg) THEN "fallback"
  ELSE "raised"

\* The loop variables while a call of the decision engine or of the
\* sanitizer is followed on its own.
LoopParked ==
  /\ pc = "decide"
  /\ max_steps = 1
  /\ it = 1
  /\ step = 0
  /\ remote_dump = DumpFile(0, TRUE)
  /\ local_dump = DumpFile(0, TRUE)
  /\ screen_context = [t |-> "elements", step |-> 0]
  /\ decision = Unbound
  /\ executed = Unbound
  /\ cmds = <<>>
  /\ captures = <<>>
  /\ remapped = FALSE
  /\ exc = "none"
  /\ reported = FALSE
  /\ done_seen = FALSE
  /\ phases = <<"perceive">>
  /\ n_perceive = 1
  /\ n_decide = 0
  /\ n_execute = 0
  /\ n_sleep = 0
  /\ exit_status = -1

\* A get_decision call starts, for any provider.
DecisionInit ==
  /\ LoopParked
  /\ provider \in Providers
  /\ llm_pc = "handler"
  /\ requests = <<>>
  /\ responses = <<>>
  /\ llm_decision = Unbound
  /\ llm_error = <<>>
  /\ SanitizerIdle

\* Line 53: the request of the handler and the decode of its answer.
HandlerDecision ==
  /\ llm_pc = "handler"
  /\ \E response \in ResponsesTo(HandlerStrategy(provider)) :
       /\ requests' = Append(requests, HandlerStrategy(provider))
       /\ responses' = Append(responses, response)
       /\ llm_pc' = AfterHandler(provider,
                                 DecisionOf(HandlerStrategy(provider),
                                            response))
       /\ llm_decision' =
            DecisionOf(HandlerStrategy(provider), response).action
       /\ llm_error' = DecisionOf(HandlerStrategy(provider), response).msg
  /\ UNCHANGED <<provider, loop_vars, san_vars>>

\* Line 66: the request of the JSON mode client; what it raises leaves
\* get_decision in place of the error of the handler.
FallbackDecision ==
  /\ llm_pc = "fallback"
  /\ \E response \in JsonResponses :
       /\ requests' = Append(requests, "json")
       /\ responses' = Append(responses, response)
       /\ llm_pc' = (IF JSONModeClient_get_decision(response).exc = "none"
                     THEN "returned" ELSE "raised")
       /\ llm_decision' = JSONModeClient_get_decision(response).action
       /\ llm_error' = JSONModeClient_get_decision(response).msg
  /\ UNCHANGED <<provider, loop_vars, san_vars>>

DecisionNext == HandlerDecision \/ FallbackDecision

DecisionSpec == DecisionInit /\ [][DecisionNext]_vars

(***************************************************************************)
(* What a state of DecisionSpec shows of the last request.                 *)
(***************************************************************************)
LastRequest == requests[Len(requests)]
LastResponse == responses[Len(responses)]

\* The JSON mode client has answered (as handler or as fallback).
JsonAttemptDone == Len(requests) > 0 /\ LastRequest = "json"

\* The function calling client has answered.
ToolAttemptDone == Len(requests) = 1 /\ requests[1] = "tools"

HasReplyText(response) ==
  /\ response.kind = "reply"
  /\ response.choices > 0
  /\ response.content # None

ReplyText(response) ==
  IF HasReplyText(response) THEN Strip(response.content.s) ELSE <<>>

\* The four conditions of the claim on the reply text.
Decodable(response) ==
  /\ HasReplyText(response)
  /\ Len(ReplyText(response)) > 0
  /\ json_loads(ReplyText(response)).ok
  /\ json_loads(ReplyText(response)).v.t = "dict"
  /\ DictHas(json_loads(ReplyText(response)).v, S_action)

\* C14: the JSON mode decode returns the decoded object exactly when the
\* reply text is non-empty after trimming, is valid JSON, is an object and
\* has the `action` field, and raises LLMError in every other case; the
\* tap reply of the example gives tag tap with coordinates [10, 20] and the
\* reply without `action` raises.
C14_JsonDecode ==
  JsonAttemptDone =>
    /\ IF Decodable(LastResponse)
       THEN /\ llm_pc = "returned"
            /\ llm_decision = json_loads(ReplyText(LastResponse)).v
            /\ llm_error = <<>>
       ELSE /\ llm_pc = "raised"
            /\ llm_decision = None
            /\ llm_error # <<>>
    /\ LastResponse = Said(ContentTap) =>
         /\ llm_pc = "returned"
         /\ DictGet(llm_decision, S_action, None) = PyStr(S_tap)
         /\ DictGet(llm_decision, S_coordinates, None)
              = PyList(<<PyInt(10), PyInt(20)>>)
    /\ LastResponse = Said(ContentNoAction) => llm_pc = "raised"

\* The tap reply of the example has been decoded.
C14_Witness ==
  /\ JsonAttemptDone
  /\ LastResponse = Said(ContentTap)
  /\ llm_pc = "returned"
  /\ DictGet(llm_decision, S_action, None) = PyStr(S_tap)

\* The tool calls of a response, none when the field is None.
Invocations(response) ==
  IF response.kind = "reply" /\ response.choices > 0
       /\ response.tool_calls # None
  THEN response.tool_calls.e
  ELSE <<>>

\* A coordinate that Python takes for a number: an int, a float, a bool
\* (a subclass of int), or the text of a decimal numeral.
NumericCoordinate(v) ==
  \/ v.t \in {"int", "float", "bool"}
  \/ /\ v.t = "str"
     /\ Len(Unsigned(Strip(v.s))) > 0
     /\ \A i \in 1..Len(Unsigned(Strip(v.s))) :
          IsDigit(Unsigned(Strip(v.s))[i]) \/ Unsigned(Strip(v.s))[i] = "."
     /\ \E i \in 1..Len(Unsigned(Strip(v.s))) :
          IsDigit(Unsigned(Strip(v.s))[i])
     /\ Cardinality({i \in 1..Len(Unsigned(Strip(v.s))) :
                       Unsigned(Strip(v.s))[i] = "."}) <= 1

\* The coordinates argument of the first call, when its arguments decode
\* to an object which has one.
GivenCoordinates(call) ==
  IF json_loads(call.arguments).ok
       /\ json_loads(call.arguments).v.t = "dict"
  THEN DictGet(json_loads(call.arguments).v, S_coordinates, Absent)
  ELSE Absent

ToolSpecificProblem(response) ==
  /\ response.kind = "reply"
  /\ response.choices > 0
  /\ \/ Len(Invocations(response)) = 0
     \/ ~json_loads(Invocations(response)[1].arguments).ok

\* C16: with provider ollama, a tool attempt that fails for want of a call
\* or for malformed arguments is followed by exactly one JSON mode request
\* before any error leaves get_decision, and the result of that request is
\* returned when it decodes.
C16_ToolProblemRetriedOnce ==
  (provider = "ollama" /\ Len(requests) >= 1
     /\ ToolSpecificProblem(responses[1])) =>
    /\ Len(requests) = 1 => llm_pc = "fallback"
    /\ Len(requests) <= 2
    /\ Len(requests) = 2 =>
         /\ requests = <<"tools", "json">>
         /\ Decodable(responses[2]) =>
              /\ llm_pc = "returned"
              /\ llm_decision = json_loads(ReplyText(responses[2])).v

\* The tool responses that fail before any choice is looked at.
UnrelatedFailure(response) ==
  \/ response.kind = "error"
  \/ response.kind = "reply" /\ response.choices = 0

\* C17: a tool attempt that fails for a reason unrelated to function
\* calling (the transport raised, or the response has no choices) is never
\* followed by a JSON mode request: get_decision raises after the one
\* request, whatever the text of the failure.
C17_UnrelatedNeverRetried ==
  (Len(requests) >= 1 /\ requests[1] = "tools"
     /\ UnrelatedFailure(responses[1])) =>
    /\ requests = <<"tools">>
    /\ llm_pc = "raised"
    /\ llm_error # <<>>

S_duration == <<"d","u","r","a","t","i","o","n">>
S_start == <<"s","t","a","r","t">>
S_end == <<"e","n","d">>
S_keycode == <<"k","e","y","c","o","d","e">>
S_package == <<"p","a","c","k","a","g","e">>

\* The parameters each handler of actions.py reads for its tag.
RelevantParameters(tag) ==
  IF tag = PyStr(S_tap) THEN {S_coordinates}
  ELSE IF tag = PyStr(S_type) THEN {S_text}
  ELSE IF tag = PyStr(S_swipe) THEN {S_start, S_end, S_duration}
  ELSE IF tag = PyStr(S_long_press) THEN {S_coordinates, S_duration}
  ELSE IF tag \in {PyStr(S_swipe_down), PyStr(S_swipe_up),
                   PyStr(S_swipe_left), PyStr(S_swipe_right)}
  THEN {S_duration}
  ELSE IF tag = PyStr(S_key) THEN {S_keycode}
  ELSE IF tag = PyStr(S_open_app) THEN {S_package}
  ELSE {}

\* C18: whichever client answered, a returned action has a reason that is
\* a string, and no key besides action, reason and the parameters of its
\* tag.
C18_Canonical ==
  llm_pc = "returned" =>
    /\ DictHas(llm_decision, S_reason)
    /\ DictGet(llm_decision, S_reason, None).t = "str"
    /\ \A i \in 1..Len(llm_decision.k) :
         llm_decision.k[i] \in
           {S_action, S_reason}
             \cup RelevantParameters(DictGet(llm_decision, S_action, None))

(***************************************************************************)
(* sanitizer.py.  A node is its attrib dictionary: attribute names with    *)
(* their texts.  An XML text is given by the nodes root.iter() yields, in  *)
(* document order; a text ET.fromstring rejects yields none.               *)
(***************************************************************************)
N_bounds == <<"b","o","u","n","d","s">>
N_clickable == <<"c","l","i","c","k","a","b","l","e">>
N_focus == <<"f","o","c","u","s">>
N_focusable == <<"f","o","c","u","s","a","b","l","e">>
N_content_desc == <<"c","o","n","t","e","n","t","-","d","e","s","c">>
N_resource_id == <<"r","e","s","o","u","r","c","e","-","i","d">>
N_class == <<"c","l","a","s","s">>
N_hint == <<"h","i","n","t">>
N_long_clickable ==
  <<"l","o","n","g","-","c","l","i","c","k","a","b","l","e">>
N_focused == <<"f","o","c","u","s","e","d">>
N_enabled == <<"e","n","a","b","l","e","d">>
N_scrollable == <<"s","c","r","o","l","l","a","b","l","e">>
N_checkable == <<"c","h","e","c","k","a","b","l","e">>
N_checked == <<"c","h","e","c","k","e","d">>
N_password == <<"p","a","s","s","w","o","r","d">>
N_selected == <<"s","e","l","e","c","t","e","d">>
N_id == <<"i","d">>
N_center == <<"c","e","n","t","e","r">>
S_true == <<"t","r","u","e">>
S_false == <<"f","a","l","s","e">>
S_read == <<"r","e","a","d">>

\* node.attrib.get(name), node.attrib.get(name, ""), and the comparison
\* `node.attrib.get(name) == "true"`.
Attr(node, name) == DictGet(node, name, None)
AttrText(node, name) == DictGet(node, name, PyStr(<<>>)).s
AttrTrue(node, name) == DictGet(node, name, None) = PyStr(S_true)

\* Lines 15-40: _parse_bounds.  ok is FALSE when BoundsParseError is raised
\* (not four parts, or int() raises ValueError on a part).
BoundsParts(bounds_str) ==
  Split(Replace(Replace(Replace(bounds_str, <<"]", "[">>, <<",">>),
                        <<"[">>, <<>>),
                <<"]">>, <<>>),
        <<",">>)

ParsedBounds(coords) ==
  IF Len(coords) # 4 THEN [ok |-> FALSE, c |-> <<>>]
  ELSE IF \E i \in 1..4 : ~IntParses(coords[i])
  THEN [ok |-> FALSE, c |-> <<>>]
  ELSE [ok |-> TRUE, c |-> [i \in 1..4 |-> ParseInt(coords[i])]]

_parse_bounds(bounds_str) == ParsedBounds(BoundsParts(bounds_str))

\* Lines 43-55.
_is_valid_bounds(x1, y1, x2, y2) == x2 - x1 > 0 /\ y2 - y1 > 0

\* Lines 58-76.
_is_interactive_element(node) ==
  \/ AttrTrue(node, N_clickable)
  \/ AttrTrue(node, N_focus)
  \/ AttrTrue(node, N_focusable)
  \/ Len(AttrText(node, S_text)) > 0
  \/ Len(AttrText(node, N_content_desc)) > 0

\* `class_name.split(".")[-1] if class_name else ""`
ElementType(class_name) ==
  IF Len(class_name) = 0 THEN <<>>
  ELSE Split(class_name, <<".">>)[Len(Split(class_name, <<".">>))]

\* Variant of Center: the mean rounded up.
CenterRoundedUp(c) ==
  PyList(<<PyInt((c[1] + c[3] + 1) \div 2), PyInt((c[2] + c[4] + 1) \div 2)>>)

\* Lines 102-103: `(x1 + x2) // 2` and `(y1 + y2) // 2`.
Center(c) ==
  PyList(<<PyInt((c[1] + c[3]) \div 2), PyInt((c[2] + c[4]) \div 2)>>)

\* Lines 127-136: the fields every element has.
ElementFields(node, c) ==
  JsonObject(<<N_id, S_text, N_content_desc, S_type, N_bounds, N_center,
               N_clickable, N_enabled>>,
             <<PyStr(AttrText(node, N_resource_id)),
               PyStr(AttrText(node, S_text)),
               PyStr(AttrText(node, N_content_desc)),
               PyStr(ElementType(AttrText(node, N_class))),
               Attr(node, N_bounds),
               Center(c),
               PyBool(AttrTrue(node, N_clickable)),
               PyBool(DictGet(node, N_enabled, PyStr(S_true))
                        = PyStr(S_true))>>)

\* `if cond: element_data[key] = val`
PutIf(d, cond, key, val) == IF cond THEN DictPut(d, key, val) ELSE d

\* Lines 139-160: the fields an element has when the attribute is set.
WithHints(node, d) ==
  PutIf(
   PutIf(
    PutIf(
     PutIf(
      PutIf(
       PutIf(
        PutIf(
         PutIf(
          PutIf(
           PutIf(d, Len(AttrText(node, S_package)) > 0,
                 S_package, PyStr(AttrText(node, S_package))),
           AttrTrue(node, N_focusable), N_focusable, PyBool(TRUE)),
          AttrTrue(node, N_focusable) /\ AttrTrue(node, N_focused),
          N_focused, PyBool(TRUE)),
         AttrTrue(node, N_long_clickable), N_long_clickable, PyBool(TRUE)),
        AttrTrue(node, N_scrollable), N_scrollable, PyBool(TRUE)),
       AttrTrue(node, N_checkable), N_checkable, PyBool(TRUE)),
      AttrTrue(node, N_checkable) /\ AttrTrue(node, N_checked),
      N_checked, PyBool(TRUE)),
     AttrTrue(node, N_password), N_password, PyBool(TRUE)),
    AttrTrue(node, N_selected), N_selected, PyBool(TRUE)),
   Len(AttrText(node, N_hint)) > 0, N_hint, PyStr(AttrText(node, N_hint)))

\* Lines 163-168.
PrimaryAction(node) ==
  IF AttrTrue(node, N_clickable) THEN S_tap
  ELSE IF AttrTrue(node, N_focusable) THEN N_focus
  ELSE S_read

\* Lines 93-170, for bounds that are present and not empty; b is what
\* _parse_bounds yields for them.
ElementOfBounds(node, b) ==
  IF ~b.ok THEN None
  ELSE IF ~_is_valid_bounds(b.c[1], b.c[2], b.c[3], b.c[4]) THEN None
  ELSE DictPut(WithHints(node, ElementFields(node, b.c)),
               S_action, PyStr(PrimaryAction(node)))

\* Lines 79-170: None when the node has no usable bounds.
_extract_element_data(node) ==
  IF Attr(node, N_bounds) = None \/ Len(Attr(node, N_bounds).s) = 0
  THEN None
  ELSE ElementOfBounds(node, _parse_bounds(Attr(node, N_bounds).s))

\* Lines 197-205: the body of the loop for one node.
Collected(node, found) ==
  IF ~_is_interactive_element(node) THEN found
  ELSE IF _extract_element_data(node) = None THEN found
  ELSE Append(found, _extract_element_data(node))

(***************************************************************************)
(* The nodes of this model.                                                *)
(***************************************************************************)
BoxEven == <<0, 0, 10, 20>>
BoxOdd == <<1, 2, 4, 7>>
BoxNegative == <<0 - 5, 0 - 3, 0, 0>>
BoxNoWidth == <<5, 5, 5, 9>>
BoxInverted == <<1, 9, 3, 4>>
Boxes == {BoxEven, BoxOdd, BoxNegative, BoxNoWidth, BoxInverted}

\* The bounds attribute uiautomator writes for a box: "[x1,y1][x2,y2]".
BoundsText(box) ==
  <<"[">> \o IntToStr(box[1]) \o <<",">> \o IntToStr(box[2]) \o <<"]", "[">>
    \o IntToStr(box[3]) \o <<",">> \o IntToStr(box[4]) \o <<"]">>

V_Button ==
  <<"a","n","d","r","o","i","d",".","w","i","d","g","e","t",".","B","u","t",
    "t","o","n">>
V_EditText ==
  <<"a","n","d","r","o","i","d",".","w","i","d","g","e","t",".","E","d","i",
    "t","T","e","x","t">>
V_ok == <<"o","k">>
V_OK == <<"O","K">>
V_pkg == <<"c","o","m",".","e","x","a","m","p","l","e">>
V_hint == <<"h">>
V_x == <<"x">>
V_d == <<"d">>
V_Letters == <<"[","a",",","b","]","[","c",",","d","]">>
V_Three == <<"[","1",",","2","]","[","3","]">>

\* A button.
NodeButton ==
  JsonObject(<<N_class, N_resource_id, S_text, S_package, N_clickable,
               N_focusable, N_enabled, N_bounds>>,
             <<PyStr(V_Button),
               PyStr(V_ok),
               PyStr(V_OK),
               PyStr(V_pkg),
               PyStr(S_true),
               PyStr(S_true),
               PyStr(S_true),
               PyStr(BoundsText(BoxEven))>>)

\* A focused password field, in a box of odd sums.
NodeField ==
  JsonObject(<<N_class, S_text, N_hint, N_clickable, N_focusable,
               N_focused, N_password, N_bounds>>,
             <<PyStr(V_EditText),
               PyStr(<<>>),
               PyStr(V_hint),
               PyStr(S_false),
               PyStr(S_true),
               PyStr(S_true),
               PyStr(S_true),
               PyStr(BoundsText(BoxOdd))>>)

\* A label scrolled partly off the screen.
NodeLabel ==
  JsonObject(<<S_text, N_clickable, N_focusable, N_bounds>>,
             <<PyStr(V_x),
               PyStr(S_false),
               PyStr(S_false),
               PyStr(BoundsText(BoxNegative))>>)

\* A clickable node of no width.
NodeThin ==
  JsonObject(<<N_clickable, N_bounds>>,
             <<PyStr(S_true),
               PyStr(BoundsText(BoxNoWidth))>>)

\* A described node whose bottom is above its top.
NodeInverted ==
  JsonObject(<<N_content_desc, N_bounds>>,
             <<PyStr(V_d),
               PyStr(BoundsText(BoxInverted))>>)

\* A layout: not clickable, not focusable, no text, no description.
NodeLayout ==
  JsonObject(<<N_clickable, N_focusable, S_text, N_content_desc,
               N_scrollable, N_long_clickable, N_selected, N_enabled,
               N_bounds>>,
             <<PyStr(S_false),
               PyStr(S_false),
               PyStr(<<>>),
               PyStr(<<>>),
               PyStr(S_true),
               PyStr(S_true),
               PyStr(S_true),
               PyStr(S_true),
               PyStr(BoundsText(BoxEven))>>)

\* As NodeLayout, with the attribute `focus`.
NodeFocusOnly ==
  JsonObject(<<N_clickable, N_focusable, S_text, N_content_desc, N_focus,
               N_bounds>>,
             <<PyStr(S_false),
               PyStr(S_false),
               PyStr(<<>>),
               PyStr(<<>>),
               PyStr(S_true),
               PyStr(BoundsText(BoxOdd))>>)

\* A clickable node without bounds.
NodeNoBounds ==
  JsonObject(<<N_clickable>>,
             <<PyStr(S_true)>>)

\* Clickable nodes whose bounds do not parse.
NodeLetters ==
  JsonObject(<<N_clickable, N_bounds>>,
             <<PyStr(S_true),
               PyStr(V_Letters)>>)

NodeThree ==
  JsonObject(<<N_clickable, N_bounds>>,
             <<PyStr(S_true),
               PyStr(V_Three)>>)

\* A label with empty bounds.
NodeEmptyBounds ==
  JsonObject(<<S_text, N_bounds>>,
             <<PyStr(V_x),
               PyStr(<<>>)>>)

\* A disabled, checked check box.
NodeCheck ==
  JsonObject(<<N_clickable, N_checkable, N_checked, N_selected,
               N_long_clickable, N_scrollable, N_enabled, N_bounds>>,
             <<PyStr(S_true),
               PyStr(S_true),
               PyStr(S_true),
               PyStr(S_true),
               PyStr(S_true),
               PyStr(S_true),
               PyStr(S_false),
               PyStr(BoundsText(BoxEven))>>)

\* As NodeLayout, with the attribute `focused`.
NodeFocusedOnly ==
  JsonObject(<<N_clickable, N_focusable, S_text, N_content_desc, N_focused,
               N_bounds>>,
             <<PyStr(S_false),
               PyStr(S_false),
               PyStr(<<>>),
               PyStr(<<>>),
               PyStr(S_true),
               PyStr(BoundsText(BoxEven))>>)

Nodes ==
  {NodeButton, NodeField, NodeLabel, NodeThin, NodeInverted, NodeLayout,
   NodeFocusOnly, NodeFocusedOnly, NodeNoBounds, NodeLetters, NodeThree,
   NodeEmptyBounds, NodeCheck}

\* One node of each kind: emitted, dropped for its bounds, dropped for
\* want of bounds, and not interactive.
NodeKinds == {NodeButton, NodeThin, NodeNoBounds, NodeLayout}

\* The largest document built from NodeKinds, and the largest built from
\* all of Nodes, in nodes.
MaxNodes == 3
MaxMixedNodes == 2

\* An element of the tree: its attrib and its child elements, in order.
Element(attrib, children) == [attrib |-> attrib, children |-> children]

\* The trees of n nodes drawn from S, and the lists of trees of n nodes
\* together.
RECURSIVE TreesOfSize(_, _), ForestsOfSize(_, _)
TreesOfSize(S, n) ==
  IF n = 0 THEN {}
  ELSE {Element(a, f) : a \in S, f \in ForestsOfSize(S, n - 1)}
ForestsOfSize(S, n) ==
  IF n = 0 THEN {<<>>}
  ELSE UNION {{<<t>> \o f : t \in TreesOfSize(S, k),
                            f \in ForestsOfSize(S, n - k)} : k \in 1..n}

TreesUpTo(S, n) == UNION {TreesOfSize(S, k) : k \in 1..n}

\* The XML texts: one that does not parse, and the documents.
Documents ==
  {NotXml}
    \cup {[parses |-> TRUE, root |-> t] :
            t \in TreesUpTo(Nodes, MaxMixedNodes)
                    \cup TreesUpTo(NodeKinds, MaxNodes)}

\* Variant of Iter: the element and its direct children.
IterChildren(element) ==
  <<element.attrib>>
    \o [i \in 1..Len(element.children) |-> element.children[i].attrib]

\* Element.iter(): the element, then the elements below each child in turn.
RECURSIVE Iter(_), IterAll(_)
Iter(element) == <<element.attrib>> \o IterAll(element.children)
IterAll(children) ==
  IF Len(children) = 0 THEN <<>>
  ELSE Iter(Head(children)) \o IterAll(Tail(children))

(***************************************************************************)
(* sanitizer.py: get_interactive_elements, one step per node of the loop.  *)
(***************************************************************************)
SanitizerInit ==
  /\ LoopParked
  /\ DecisionIdle
  /\ xml_content \in Documents
  /\ xml_nodes = <<>>
  /\ node_index = 0
  /\ elements = <<>>
  /\ san_pc = "parse"

\* Lines 187-197: ET.fromstring raises ParseError and XMLParseError is
\* raised, or the list of elements starts empty and root.iter() is taken.
FromString ==
  /\ san_pc = "parse"
  /\ san_pc' = (IF xml_content.parses THEN "iterate" ELSE "raised")
  /\ xml_nodes' = (IF xml_content.parses THEN Iter(xml_content.root)
                   ELSE <<>>)
  /\ UNCHANGED <<xml_content, node_index, elements, loop_vars, llm_vars>>

\* Lines 197-205: the next node of root.iter().
VisitNode ==
  /\ san_pc = "iterate"
  /\ node_index < Len(xml_nodes)
  /\ node_index' = node_index + 1
  /\ elements' = Collected(xml_nodes[node_index + 1], elements)
  /\ UNCHANGED <<xml_content, xml_nodes, san_pc, loop_vars, llm_vars>>

\* Line 207.
ReturnElements ==
  /\ san_pc = "iterate"
  /\ node_index = Len(xml_nodes)
  /\ san_pc' = "returned"
  /\ UNCHANGED <<xml_content, xml_nodes, node_index, elements, loop_vars,
                 llm_vars>>

SanitizerNext == FromString \/ VisitNode \/ ReturnElements

SanitizerSpec == SanitizerInit /\ [][SanitizerNext]_vars

\* The node the last step of the loop visited.
VisitedNode == xml_nodes[node_index']

\* The node is interactive in the words of the claims: clickable,
\* focusable, or with a text or a description.
Meaningful(node) ==
  \/ AttrTrue(node, N_clickable)
  \/ AttrTrue(node, N_focusable)
  \/ Len(AttrText(node, S_text)) > 0
  \/ Len(AttrText(node, N_content_desc)) > 0

\* m is the floor of sum / 2.
IsFloorHalf(m, sum) == 2 * m <= sum /\ sum <= 2 * m + 1

EmittedFor(box) ==
  /\ Len(elements') = Len(elements) + 1
  /\ SubSeq(elements', 1, Len(elements)) = elements
  /\ DictGet(elements'[Len(elements')], N_bounds, None)
       = PyStr(BoundsText(box))
  /\ DictGet(elements'[Len(elements')], N_center, None).t = "list"
  /\ Len(DictGet(elements'[Len(elements')], N_center, None).e) = 2
  /\ IsFloorHalf(DictGet(elements'[Len(elements')], N_center, None).e[1].n,
                 box[1] + box[3])
  /\ IsFloorHalf(DictGet(elements'[Len(elements')], N_center, None).e[2].n,
                 box[2] + box[4])

\* C19: when the loop visits an interactive node whose bounds are
\* "[a,b][c,d]", it appends one element whose center is the floor of
\* (a+c)/2 and of (b+d)/2 if a < c and b < d, and appends nothing if
\* a >= c or b >= d.
C19_CenterOfBounds ==
  [][VisitNode =>
       \A box \in Boxes :
         (Meaningful(VisitedNode)
            /\ Attr(VisitedNode, N_bounds) = PyStr(BoundsText(box))) =>
           IF box[1] < box[3] /\ box[2] < box[4]
           THEN EmittedFor(box)
           ELSE elements' = elements]_vars

\* The field in the box of odd sums [1,2][4,7] has been emitted with the
\* center [2, 4], and the label in [-5,-3][0,0] with [-3, -2].
C19_Witness ==
  /\ san_pc = "returned"
  /\ xml_nodes = <<NodeField, NodeLabel>>
  /\ Len(elements) = 2
  /\ DictGet(elements[1], N_center, None) = PyList(<<PyInt(2), PyInt(4)>>)
  /\ DictGet(elements[2], N_center, None)
       = PyList(<<PyInt(0 - 3), PyInt(0 - 2)>>)

\* C20: when the loop visits a node that is not clickable, not focusable
\* and has neither text nor description, it appends nothing, whatever the
\* other attributes of the node are.
C20_InertNodeOmitted ==
  [][VisitNode => (~Meaningful(VisitedNode) => elements' = elements)]_vars

\* The node has the bounds of a box of positive width and height.
HasPositiveBox(node) ==
  \E box \in Boxes :
    /\ box[1] < box[3]
    /\ box[2] < box[4]
    /\ Attr(node, N_bounds) = PyStr(BoundsText(box))

\* The five conditions of the claim, each enough for inclusion.
MarkedOrLabelled(node) ==
  \/ AttrTrue(node, N_clickable)
  \/ AttrTrue(node, N_focused)
  \/ AttrTrue(node, N_focusable)
  \/ Len(AttrText(node, S_text)) > 0
  \/ Len(AttrText(node, N_content_desc)) > 0

\* C21: when the loop visits a node in a box of positive area that is
\* clickable, or focused, or focusable, or has a text, or has a
\* description, it appends an element for it.
C21_MarkedNodeEmitted ==
  [][VisitNode =>
       ((HasPositiveBox(VisitedNode) /\ MarkedOrLabelled(VisitedNode)) =>
          /\ Len(elements') = Len(elements) + 1
          /\ DictGet(elements'[Len(elements')], N_bounds, None)
               = Attr(VisitedNode, N_bounds))]_vars

(***************************************************************************)
(* Document order, stated by the paths of the tree: a path is the list of  *)
(* child positions that leads from the root to a node, and a node comes    *)
(* before another when its path is a proper prefix of the other's or is    *)
(* smaller at the first position where the two differ.                     *)
(***************************************************************************)
RECURSIVE Paths(_)
Paths(element) ==
  {<<>>} \cup UNION {{<<i>> \o p : p \in Paths(element.children[i])} :
                       i \in 1..Len(element.children)}

RECURSIVE NodeAt(_, _)
NodeAt(element, path) ==
  IF Len(path) = 0 THEN element.attrib
  ELSE NodeAt(element.children[Head(path)], Tail(path))

PathBefore(p, q) ==
  \/ Len(p) < Len(q) /\ SubSeq(q, 1, Len(p)) = p
  \/ \E k \in 1..Len(p) :
       /\ k <= Len(q)
       /\ SubSeq(p, 1, k - 1) = SubSeq(q, 1, k - 1)
       /\ p[k] < q[k]

Rank(element, path) ==
  Cardinality({q \in Paths(element) : PathBefore(q, path)}) + 1

\* The node stays in the output: it is interactive and is in a box of
\* positive area.
Remaining(node) == _is_interactive_element(node) /\ HasPositiveBox(node)

\* C27: the loop visits every node of the tree in document order, whatever
\* its depth; no node aborts the call (only a text that does not parse
\* raises); and the elements built so far are, in order, those of the
\* visited interactive nodes with usable bounds, so that the returned list
\* is a function of the input.
C27_DocumentOrder ==
  /\ san_pc \in {"iterate", "returned"} =>
       /\ xml_content.parses
       /\ Len(xml_nodes) = Cardinality(Paths(xml_content.root))
       /\ \A p \in Paths(xml_content.root) :
            xml_nodes[Rank(xml_content.root, p)]
              = NodeAt(xml_content.root, p)
  /\ san_pc = "raised" => ~xml_content.parses
  /\ san_pc = "returned" => node_index = Len(xml_nodes)
  /\ Len(elements)
       = Len(SelectSeq(SubSeq(xml_nodes, 1, node_index), Remaining))
  /\ \A i \in 1..Len(elements) :
       /\ DictGet(elements[i], N_bounds, None)
            = Attr(SelectSeq(SubSeq(xml_nodes, 1, node_index),
                             Remaining)[i], N_bounds)
       /\ DictGet(elements[i], S_text, None).s
            = AttrText(SelectSeq(SubSeq(xml_nodes, 1, node_index),
                                 Remaining)[i], S_text)
       /\ DictGet(elements[i], N_id, None).s
            = AttrText(SelectSeq(SubSeq(xml_nodes, 1, node_index),
                                 Remaining)[i], N_resource_id)

\* A button two levels below the root, under a node without bounds, has
\* been emitted, and both nodes above it have been dropped.
C27_Witness ==
  /\ san_pc = "returned"
  /\ xml_content.parses
  /\ xml_content.root
       = Element(NodeLayout,
                 <<Element(NodeNoBounds, <<Element(NodeButton, <<>>)>>)>>)
  /\ node_index = 3
  /\ Len(elements) = 1
  /\ DictGet(elements[1], S_text, None) = PyStr(V_OK)

\* A capture command of this step exited with a non-zero code, or no dump
\* file is there after the pull.
CaptureFailed ==
  /\ Len(captures) > 0
  /\ \/ \E i \in 1..Len(captures) : captures[i].rc # 0
     \/ ~local_dump.exists

\* C22: in a step whose capture failed (the dump or the pull exited with a
\* non-zero code, or the dump file is missing), get_screen_state has raised
\* ScreenCaptureError, the run has ended with it, and no decision was
\* requested in that step.
C22_CaptureFailureRaises ==
  CaptureFailed =>
    /\ pc = "raised"
    /\ exc = "ScreenCaptureError"
    /\ \A i \in 1..Len(phases) : phases[i] # "decide"

\* C23: the screen context a step hands to the decision engine is built
\* from a dump written in that same step, never from a file an earlier
\* step or an earlier run left behind.
C23_FreshScreenContext ==
  screen_context # Unbound => screen_context.step = step

(***************************************************************************)
(* The type action.                                                        *)
(***************************************************************************)
\* The text a type action was executed with, when it is a non-empty str.
TypedText == executed.text.s
TypeExecuted ==
  /\ ExecuteCalled
  /\ executed.action = PyStr(S_type)
  /\ executed.text.t = "str"
  /\ Len(executed.text.s) > 0

\* sent is text with every space character replaced by the two characters
\* %s and every other character kept, in order: the characters of sent are
\* consumed from the left, two for a space of text and one for any other.
RECURSIVE SpacesEscaped(_, _)
SpacesEscaped(text, sent) ==
  IF Len(text) = 0 THEN Len(sent) = 0
  ELSE IF Head(text) = " "
       THEN /\ Len(sent) >= 2
            /\ sent[1] = "%"
            /\ sent[2] = "s"
            /\ SpacesEscaped(Tail(text), SubSeq(sent, 3, Len(sent)))
       ELSE /\ Len(sent) >= 1
            /\ sent[1] = Head(text)
            /\ SpacesEscaped(Tail(text), Tail(sent))

\* C24: for every non-empty text the type action issues one
\* `shell input text` command whose argument is the text with each space
\* replaced by %s: the argument holds no space and is otherwise the text.
C24_TypeEscapesSpaces ==
  TypeExecuted =>
    /\ exc = "none"
    /\ Len(cmds) = 1
    /\ cmds[1].cmd = "shell input text"
    /\ Len(cmds[1].args) = 1
    /\ \A i \in 1..Len(cmds[1].args[1]) : cmds[1].args[1][i] # " "
    /\ SpacesEscaped(TypedText, cmds[1].args[1])

C24_Witness ==
  /\ TypeExecuted
  /\ TypedText = S_spaced
  /\ cmds[1].args[1] = <<"%","s","a","%","s","%","s","%","s","%","s">>

(***************************************************************************)
(* The key action.                                                         *)
(***************************************************************************)
\* A key action was executed with a keycode that is a name or a raw code.
KeyExecuted ==
  /\ ExecuteCalled
  /\ executed.action = PyStr(S_key)
  /\ executed.keycode.t \in {"str", "int"}
  /\ Truthy(executed.keycode)

KeycodeIsName(keycode) ==
  keycode.t = "str" /\ Upper(keycode.s) \in DOMAIN keycode_map

\* C25: a key action whose keycode is a well-known name sends the name's
\* numeric code, and one with any other keycode, an unrecognized name or a
\* raw numeric code, sends that keycode verbatim as the one argument of
\* `shell input keyevent`.
C25_KeycodeResolvedOrVerbatim ==
  KeyExecuted =>
    /\ exc = "none"
    /\ Len(cmds) = 1
    /\ cmds[1].cmd = "shell input keyevent"
    /\ cmds[1].args =
         <<IF KeycodeIsName(executed.keycode)
           THEN keycode_map[Upper(executed.keycode.s)]
           ELSE Str(executed.keycode)>>

\* The same for the keycodes that are text: names and codes given as text.
C25_TextKeycodeResolvedOrVerbatim ==
  KeyExecuted /\ executed.keycode.t = "str" =>
    /\ exc = "none"
    /\ Len(cmds) = 1
    /\ cmds[1].cmd = "shell input keyevent"
    /\ cmds[1].args =
         <<IF KeycodeIsName(executed.keycode)
           THEN keycode_map[Upper(executed.keycode.s)]
           ELSE executed.keycode.s>>

(***************************************************************************)
(* The advisory actions.                                                   *)
(***************************************************************************)
AdvisoryHandlers ==
  {"_handle_get_current_app", "_handle_get_device_info",
   "_handle_get_screen_info"}

\* a is one of the three queries, or an open_app with a package name.
Advisory(a) ==
  \/ Dispatch(a).handler \in AdvisoryHandlers
  \/ /\ Dispatch(a).handler = "_handle_open_app"
     /\ a.package.t = "str"
     /\ Len(a.package.s) > 0

TagGiven == executed["action"]
TagLeft == decision["action"]

\* C29: the synonym step rewrites only tags that are not registered; every
\* target of the synonym table is registered and none is done; so a
\* registered tag is left as it came, a remapped action finds a handler,
\* and no execute call of the loop, which comes after the done check, runs
\* the done handler.
C29_RemapSound ==
  /\ \A tag \in DOMAIN action_mapping :
        /\ action_mapping[tag] \in DOMAIN _action_handlers
        /\ action_mapping[tag] # S_done
  /\ (pc \in {"sleep", "raised"} /\ ExecuteCalled) =>
        /\ Registered(TagGiven) => TagLeft = TagGiven /\ ~remapped
        /\ TagLeft # TagGiven => ~Registered(TagGiven) /\ remapped
        /\ remapped => Registered(TagLeft) /\ HandlerRun # ""
        /\ HandlerRun # "_handle_done"
        /\ TagLeft # PyStr(S_done)

\* A remapped call (Click, run as tap) ...
C29_Witness ==
  /\ pc = "sleep"
  /\ ExecuteCalled
  /\ TagGiven = PyStr(S_Click)
  /\ TagLeft = PyStr(S_tap)
  /\ remapped
  /\ HandlerRun = "_handle_tap"

\* ... and a call with done in capitals, which passes the loop's check, is
\* not registered, is no synonym, and finds no handler.
C29_CapitalDoneRejected ==
  /\ pc = "raised"
  /\ ExecuteCalled
  /\ TagGiven = PyStr(S_DONE)
  /\ HandlerRun = ""
  /\ exc = "ValueError"

(***************************************************************************)
(* The provider requests of one get_decision call.                         *)
(***************************************************************************)
DecisionEnded == llm_pc \in {"returned", "raised"}

\* The tool request failed with a message that has a tool-calling phrase.
ToolFailureMatched ==
  LET r == FunctionCallingClient_get_decision(responses[1])
  IN /\ r.exc # "none"
     /\ \E keyword \in Keywords : Contains(Lower(r.msg), keyword)

\* C28: one get_decision call sends at most two provider requests: exactly
\* one, in JSON mode, when the provider is not ollama; a second one, in JSON
\* mode, only after a tool request that failed with a message matching a
\* tool-calling phrase; when the second fails too its error is the error of
\* the call and no third request follows.
C28_AtMostTwoRequests ==
  /\ Len(requests) <= 2
  /\ Len(responses) = Len(requests)
  /\ DecisionEnded => Len(requests) >= 1
  /\ (DecisionEnded /\ provider # "ollama") => requests = <<"json">>
  /\ Len(requests) = 2 =>
       /\ provider = "ollama"
       /\ requests = <<"tools", "json">>
       /\ ToolFailureMatched
       /\ DecisionEnded
       /\ JSONModeClient_get_decision(responses[2]).exc # "none" =>
            /\ llm_pc = "raised"
            /\ llm_error = JSONModeClient_get_decision(responses[2]).msg
  /\ llm_pc = "fallback" => Len(requests) = 1 /\ ToolFailureMatched

\* The fallback request was sent and failed as well.
C28_Witness ==
  /\ provider = "ollama"
  /\ requests = <<"tools", "json">>
  /\ llm_pc = "raised"
  /\ llm_error # <<>>
  /\ responses[1] = Message(PyStr(S_stop), None, None)
  /\ responses[2] = ConnectionFailure

(***************************************************************************)
(* kernel.py: the legacy single-file agent.  Its run_adb_command,          *)
(* get_screen_state and the handlers of tap, type, home, back, recent,     *)
(* settings, notification and wait are the code of the package line for    *)
(* line (lines 91-146 and 178-237), so the definitions above stand for     *)
(* them; its executor has no synonym step and its done handler exits.      *)
(***************************************************************************)
kernel_action_handlers ==
  (S_tap :> "_handle_tap") @@ (S_type :> "_handle_type") @@
  (S_home :> "_handle_home") @@ (S_back :> "_handle_back") @@
  (S_recent :> "_handle_recent") @@ (S_settings :> "_handle_settings") @@
  (S_notification :> "_handle_notification") @@
  (S_wait :> "_handle_wait") @@ (S_done :> "_handle_done")

\* Variant of kernel_handle_done: the handler prints and returns.
kernel_handle_done_returns(action, adb) == Returned(<<>>)

\* `print("Goal Achieved."); sys.exit(0)`: SystemExit with code 0.
kernel_handle_done(action, adb) == Raise("SystemExit")

\* The handler of a tag ("" when there is none).
kernel_handler(action_type) ==
  IF action_type.t = "str" /\ action_type.s \in DOMAIN kernel_action_handlers
  THEN kernel_action_handlers[action_type.s]
  ELSE ""

\* ActionExecutor.execute of kernel.py, reached through execute_action.
kernel_execute(action, adb) ==
  LET action_type == Get(action, "action")
  IN IF ~Truthy(action_type) THEN Raise("ValueError")
     ELSE IF ~Hashable(action_type) THEN Raise("TypeError")
     ELSE IF kernel_handler(action_type) = "" THEN Raise("ValueError")
     ELSE IF kernel_handler(action_type) = "_handle_done"
          THEN kernel_handle_done(action, adb)
     ELSE CallHandler(kernel_handler(action_type), action, adb)

\* A run_agent call starts; exit_status is that of the process running it.
KernelInit == Init

\* Lines 421-426: get_llm_decision hands back what json.loads made of the
\* reply, or raises LLMError; `decision.get('reason', ...)` then raises
\* AttributeError when the reply was not a JSON object.  No test for done
\* follows: the decision goes to execute_action.
KernelDecide ==
  /\ pc = "decide"
  /\ \/ \E d \in Decisions :
          /\ decision' = d
          /\ pc' = "act"
          /\ UNCHANGED <<exc, reported>>
     \/ \E e \in {"LLMError", "AttributeError"} :
          /\ pc' = "raised"
          /\ exc' = e
          /\ reported' = (e \in CaughtErrors)
          /\ UNCHANGED decision
  /\ n_decide' = n_decide + 1
  /\ phases' = Append(phases, "decide")
  /\ UNCHANGED <<exit_status, max_steps, it, step, remote_dump, local_dump,
                 screen_context, executed, cmds, captures, remapped,
                 done_seen, n_perceive, n_execute, n_sleep>>
  /\ UNCHANGED <<llm_vars, san_vars>>

\* Lines 428-436: execute_action(decision); the except clause names four
\* exception classes, and SystemExit is none of them.
KernelAct ==
  /\ pc = "act"
  /\ \E adb \in AdbAnswers(kernel_handler(Get(decision, "action"))) :
       LET r == kernel_execute(decision, adb)
       IN /\ executed' = decision
          /\ cmds' = r.cmds
          /\ pc' = (IF r.exc = "none" THEN "sleep" ELSE "raised")
          /\ IF r.exc = "none"
             THEN UNCHANGED <<exc, reported>>
             ELSE /\ exc' = r.exc
                  /\ reported' = (r.exc \in CaughtErrors)
  /\ n_execute' = n_execute + 1
  /\ phases' = Append(phases, "act")
  /\ UNCHANGED <<exit_status, max_steps, it, step, remote_dump, local_dump,
                 screen_context, decision, captures, remapped, done_seen,
                 n_perceive, n_decide, n_sleep>>
  /\ UNCHANGED <<llm_vars, san_vars>>

\* Lines 441-455: the script ends when run_agent has returned (status 0);
\* `except Exception` turns an exception into sys.exit(1); SystemExit is
\* not an Exception and ends the process with its own code, 0.
ExitStatusOf(e) == IF e \in {"none", "SystemExit"} THEN 0 ELSE 1

KernelMain ==
  /\ pc \in {"returned", "raised"}
  /\ pc' = "exited"
  /\ exit_status' = ExitStatusOf(exc)
  /\ UNCHANGED <<max_steps, it, step, remote_dump, local_dump,
                 screen_context, decision, executed, cmds, captures,
                 remapped, exc, reported, done_seen, phases, n_perceive,
                 n_decide, n_execute, n_sleep>>
  /\ UNCHANGED <<llm_vars, san_vars>>

KernelNext ==
  ForStep \/ Perceive \/ KernelDecide \/ KernelAct \/ Sleep \/ KernelMain

KernelSpec == KernelInit /\ [][KernelNext]_vars

DoneDecided == decision # Unbound /\ Get(decision, "action") = PyStr(S_done)

\* C30: in run_agent of kernel.py a done decision is not tested by the loop
\* but handed to the executor, whose done handler ends the process with
\* exit status 0: no device command is issued for it, the except clause of
\* the loop does not intercept the exit, and no later step runs.
C30_KernelDoneExits ==
  /\ [][pc = "decide" /\ DoneDecided' => pc' = "act"]_vars
  /\ [][pc = "act" /\ DoneDecided =>
          /\ executed' = decision
          /\ cmds' = <<>>
          /\ exc' = "SystemExit"
          /\ ~reported'
          /\ pc' = "raised"]_vars
  /\ [][exc = "SystemExit" =>
          /\ pc' = "exited"
          /\ exit_status' = 0
          /\ UNCHANGED <<step, it, n_perceive, n_decide, n_execute, n_sleep,
                         cmds>>]_vars
  /\ [](exc = "SystemExit" => DoneDecided /\ executed = decision)

\* The process has exited on a done decided in the first of two steps.
C30_Witness ==
  /\ pc = "exited"
  /\ exit_status = 0
  /\ exc = "SystemExit"
  /\ DoneDecided
  /\ max_steps = 2
  /\ step = 0
  /\ n_execute = 1
  /\ n_sleep = 0

====
